---- MODULE Spec2Model ----
(***************************************************************************)
(* Supervisor / routing core of the CFA financial agent: signal detector,  *)
(* circuit breaker, supervisor node and the orchestration graph of one     *)
(* conversation thread.                                                    *)
(*                                                                         *)
(* Python strings are sequences of one-character strings, so that upper(), *)
(* lower(), strip(), slicing and the `in` substring test are computed and  *)
(* not assumed.  A pictograph of a literal text is one element named by    *)
(* its code point ("U+26A0").                                              *)
(***************************************************************************)
EXTENDS Integers, Sequences, FiniteSets, TLC

VARIABLES
    messages,       \* AgentState.messages: sequence of message records
    next_node,      \* AgentState.next_node
    error_count,    \* AgentState.error_count
    error_types,    \* AgentState.error_types: dict, as insertion-ordered <<key, value>> pairs
    circuit_open,   \* AgentState.circuit_open
    pc,             \* the node the running graph invocation executes next
    turns,          \* chat requests accepted so far on the thread
    sup_runs,       \* Supervisor executions in the current invocation
    handler_runs,   \* handler-node executions in the current invocation
    llm_calls,      \* model calls issued by the Supervisor in the current invocation
    call,           \* pure-function harness: the call being made
    result          \* pure-function harness: its result

state_vars == <<messages, next_node, error_count, error_types, circuit_open>>
graph_vars == <<pc, turns, sup_runs, handler_runs, llm_calls>>
harness_vars == <<call, result>>
vars == <<messages, next_node, error_count, error_types, circuit_open,
          pc, turns, sup_runs, handler_runs, llm_calls, call, result>>

----------------------------------------------------------------------------
(* Bounds of the model.                                                    *)

\* fragments concatenated into one detector input text
MaxFragments == 2
\* largest counter value of a circuit-breaker input
MaxErrors == 3

----------------------------------------------------------------------------
(* Python values.                                                          *)

\* Python's None, where a string is expected
None == <<"<None>">>

\* str.upper() / str.lower() over the letters the texts of the model use
LowerAlphabet ==
    <<"a","b","c","d","e","f","g","h","i","j","k","l","m","n","o","p","q","r","s","t","u","v","w","x","y","z","á","é","í","ó","ú","ñ">>
UpperAlphabet ==
    <<"A","B","C","D","E","F","G","H","I","J","K","L","M","N","O","P","Q","R","S","T","U","V","W","X","Y","Z","Á","É","Í","Ó","Ú","Ñ">>

\* the letter at the same place of the other alphabet
ToUpper ==
    [c \in {LowerAlphabet[i] : i \in 1..Len(LowerAlphabet)} |->
        UpperAlphabet[CHOOSE i \in 1..Len(LowerAlphabet) : LowerAlphabet[i] = c]]

ToLower ==
    [c \in {UpperAlphabet[i] : i \in 1..Len(UpperAlphabet)} |->
        LowerAlphabet[CHOOSE i \in 1..Len(UpperAlphabet) : UpperAlphabet[i] = c]]

upper_char(c) == IF c \in DOMAIN ToUpper THEN ToUpper[c] ELSE c

lower_char(c) == IF c \in DOMAIN ToLower THEN ToLower[c] ELSE c

upper(s) == [i \in 1..Len(s) |-> upper_char(s[i])]

lower(s) == [i \in 1..Len(s) |-> lower_char(s[i])]

\* Python's `t in s` for strings
str_in(t, s) ==
    \E i \in 0..(Len(s) - Len(t)) : \A j \in 1..Len(t) : s[i + j] = t[j]

\* "".join(parts)
RECURSIVE join(_)
join(parts) ==
    IF parts = <<>> THEN <<>> ELSE Head(parts) \o join(Tail(parts))

\* dict.get(k, default) on an insertion-ordered dict
dict_get(d, k, default) ==
    IF \E i \in 1..Len(d) : d[i][1] = k
    THEN d[CHOOSE i \in 1..Len(d) : d[i][1] = k][2]
    ELSE default

\* d[k] = v: an existing key keeps its place, a new key is added last
dict_set(d, k, v) ==
    IF \E i \in 1..Len(d) : d[i][1] = k
    THEN [d EXCEPT ![CHOOSE i \in 1..Len(d) : d[i][1] = k] = <<k, v>>]
    ELSE Append(d, <<k, v>>)

EmptyDict == <<>>

\* message.content is a str or a list of parts (dicts, strings)
StrContent(s) == [type |-> "str", val |-> s]

ListContent(parts) == [type |-> "list", val |-> parts]

HumanMessage(s) == [type |-> "human", content |-> StrContent(s), tool_calls |-> FALSE]

AIMessage(s) == [type |-> "ai", content |-> StrContent(s), tool_calls |-> FALSE]

\* api.py 156-162: the user's message carries the time of the request
msg_usuario(message, timestamp) ==
    [type |-> "human", content |-> StrContent(message), tool_calls |-> FALSE,
     additional_kwargs |-> [timestamp |-> timestamp]]

----------------------------------------------------------------------------
(* Control tokens and error phrases (graph/agent_graph.py, 96-109).        *)

TAREA_COMPLETADA ==
    <<"T","A","R","E","A","_","C","O","M","P","L","E","T","A","D","A">>
ERROR_BLOQUEANTE ==
    <<"E","R","R","O","R","_","B","L","O","Q","U","E","A","N","T","E">>
FALTAN_DATOS ==
    <<"F","A","L","T","A","N","_","D","A","T","O","S">>
TRANSFERIR_A_RAG ==
    <<"T","R","A","N","S","F","E","R","I","R","_","A","_","R","A","G">>

LegacyErrorKeywords ==
    << <<"e","r","r","o","r"," ","c","a","l","c","u","l","a","n","d","o">>,
       <<"p","r","o","b","l","e","m","a"," ","t","é","c","n","i","c","o">>,
       <<"f","a","l","l","o"," ","h","e","r","r","a","m","i","e","n","t","a">> >>

----------------------------------------------------------------------------
(* Error/Signal Detector.                                                  *)

\* lines 82-90: the text of a message, str or list of parts
RECURSIVE parts_text(_)
parts_text(parts) ==
    IF parts = <<>> THEN <<>>
    ELSE LET part == Head(parts)
         IN  (IF part.type \in {"dict_text", "str"} THEN part.val ELSE <<>>)
             \o parts_text(Tail(parts))

full_content(message) ==
    IF message.content.type = "str" THEN message.content.val
    ELSE IF message.content.type = "list" THEN parts_text(message.content.val)
    ELSE <<>>

\* mutant: the legacy phrases are looked for first
detect_error_type_LegacyFirst(message) ==
    LET content_upper == upper(full_content(message))
        content_lower == lower(full_content(message))
    IN  IF \E k \in 1..Len(LegacyErrorKeywords) : str_in(LegacyErrorKeywords[k], content_lower)
        THEN "tool_failure"
        ELSE IF str_in(ERROR_BLOQUEANTE, content_upper) THEN "tool_failure"
        ELSE IF str_in(TAREA_COMPLETADA, content_upper) THEN "success"
        ELSE IF str_in(FALTAN_DATOS, content_upper) THEN "validation"
        ELSE "unknown"

\* mutant: the tokens are looked for in the text as written
detect_error_type_CaseSensitive(message) ==
    LET content == full_content(message)
        content_lower == lower(full_content(message))
    IN  IF str_in(TAREA_COMPLETADA, content) THEN "success"
        ELSE IF str_in(ERROR_BLOQUEANTE, content) THEN "tool_failure"
        ELSE IF str_in(FALTAN_DATOS, content) THEN "validation"
        ELSE IF \E k \in 1..Len(LegacyErrorKeywords) : str_in(LegacyErrorKeywords[k], content_lower)
        THEN "tool_failure"
        ELSE "unknown"

\* mutant: the missing-data token is looked for before the blocking-error token
detect_error_type_ValidationFirst(message) ==
    LET content_upper == upper(full_content(message))
        content_lower == lower(full_content(message))
    IN  IF str_in(TAREA_COMPLETADA, content_upper) THEN "success"
        ELSE IF str_in(FALTAN_DATOS, content_upper) THEN "validation"
        ELSE IF str_in(ERROR_BLOQUEANTE, content_upper) THEN "tool_failure"
        ELSE IF \E k \in 1..Len(LegacyErrorKeywords) : str_in(LegacyErrorKeywords[k], content_lower)
        THEN "tool_failure"
        ELSE "unknown"

detect_error_type(message) ==
    LET content_upper == upper(full_content(message))
        content_lower == lower(full_content(message))
    IN  IF str_in(TAREA_COMPLETADA, content_upper) THEN "success"
        ELSE IF str_in(ERROR_BLOQUEANTE, content_upper) THEN "tool_failure"
        ELSE IF str_in(FALTAN_DATOS, content_upper) THEN "validation"
        ELSE IF \E k \in 1..Len(LegacyErrorKeywords) : str_in(LegacyErrorKeywords[k], content_lower)
        THEN "tool_failure"
        ELSE "unknown"

----------------------------------------------------------------------------
(* Circuit Breaker.                                                        *)

CIRCUIT_BREAKER_MAX_RETRIES == 2

\* mutant: the validation rule trips one error early
should_open_circuit_ValidationTwo(error_types_, error_count_) ==
    \/ dict_get(error_types_, "tool_failure", 0) >= 2
    \/ dict_get(error_types_, "validation", 0) >= 2
    \/ error_count_ >= CIRCUIT_BREAKER_MAX_RETRIES

\* mutant: the total must exceed the max retries
should_open_circuit_StrictTotal(error_types_, error_count_) ==
    \/ dict_get(error_types_, "tool_failure", 0) >= 2
    \/ dict_get(error_types_, "validation", 0) >= 3
    \/ error_count_ > CIRCUIT_BREAKER_MAX_RETRIES

\* mutant: the first counted error opens the circuit
should_open_circuit_FirstError(error_types_, error_count_) == error_count_ >= 1

\* mutant: without the rule on the total
should_open_circuit_NoTotalRule(error_types_, error_count_) ==
    \/ dict_get(error_types_, "tool_failure", 0) >= 2
    \/ dict_get(error_types_, "validation", 0) >= 3

should_open_circuit(error_types_, error_count_) ==
    IF dict_get(error_types_, "tool_failure", 0) >= 2 THEN TRUE
    ELSE IF dict_get(error_types_, "validation", 0) >= 3 THEN TRUE
    ELSE IF error_count_ >= CIRCUIT_BREAKER_MAX_RETRIES THEN TRUE
    ELSE FALSE

----------------------------------------------------------------------------
(* Node names (agents/financial_agents.py, 239-248; langgraph's END).      *)

FINISH ==
    <<"F","I","N","I","S","H">>
Supervisor ==
    <<"S","u","p","e","r","v","i","s","o","r">>
END ==
    <<"_","_","e","n","d","_","_">>
Idle ==
    <<"_","_","i","d","l","e","_","_">>
Agente_Renta_Fija ==
    <<"A","g","e","n","t","e","_","R","e","n","t","a","_","F","i","j","a">>
Agente_Finanzas_Corp ==
    <<"A","g","e","n","t","e","_","F","i","n","a","n","z","a","s","_","C","o","r","p">>
Agente_Equity ==
    <<"A","g","e","n","t","e","_","E","q","u","i","t","y">>
Agente_Portafolio ==
    <<"A","g","e","n","t","e","_","P","o","r","t","a","f","o","l","i","o">>
Agente_Derivados ==
    <<"A","g","e","n","t","e","_","D","e","r","i","v","a","d","o","s">>
Agente_Ayuda ==
    <<"A","g","e","n","t","e","_","A","y","u","d","a">>
Agente_RAG ==
    <<"A","g","e","n","t","e","_","R","A","G">>
Agente_Sintesis_RAG ==
    <<"A","g","e","n","t","e","_","S","i","n","t","e","s","i","s","_","R","A","G">>

\* the keys of the agent_nodes dict
agent_nodes ==
    { Agente_Renta_Fija, Agente_Finanzas_Corp, Agente_Equity, Agente_Portafolio,
      Agente_Derivados, Agente_Ayuda, Agente_RAG, Agente_Sintesis_RAG }

\* the nodes built by create_react_agent
Specialists ==
    { Agente_Renta_Fija, Agente_Finanzas_Corp, Agente_Equity, Agente_Portafolio,
      Agente_Derivados }

----------------------------------------------------------------------------
(* More of Python's str.                                                   *)

Digits == <<"0","1","2","3","4","5","6","7","8","9">>

\* str(n) for n >= 0
RECURSIVE int_str(_)
int_str(n) ==
    IF n < 10 THEN <<Digits[n + 1]>> ELSE int_str(n \div 10) \o <<Digits[(n % 10) + 1]>>

\* the error kinds as text
kind_str(k) ==
    CASE k = "tool_failure" -> <<"t","o","o","l","_","f","a","i","l","u","r","e">>
      [] k = "validation"   -> <<"v","a","l","i","d","a","t","i","o","n">>
      [] k = "capability"   -> <<"c","a","p","a","b","i","l","i","t","y">>
      [] OTHER              -> <<"u","n","k","n","o","w","n">>

\* str(d) of a dict of error kinds: {'validation': 1, 'tool_failure': 2}
RECURSIVE dict_items_str(_)
dict_items_str(d) ==
    IF d = <<>> THEN <<>>
    ELSE <<"'">> \o kind_str(d[1][1]) \o <<"'",":"," ">> \o int_str(d[1][2])
         \o (IF Len(d) > 1 THEN <<","," ">> ELSE <<>>) \o dict_items_str(Tail(d))

dict_str(d) == <<"{">> \o dict_items_str(d) \o <<"}">>

Whitespace == {" ", "\n", "\t", "\r"}

\* s.strip()
RECURSIVE lstrip(_)
lstrip(s) == IF s # <<>> /\ Head(s) \in Whitespace THEN lstrip(Tail(s)) ELSE s

RECURSIVE rstrip(_)
rstrip(s) ==
    IF s # <<>> /\ s[Len(s)] \in Whitespace THEN rstrip(SubSeq(s, 1, Len(s) - 1)) ELSE s

strip(s) == rstrip(lstrip(s))

\* s[:n]
prefix(s, n) == SubSeq(s, 1, IF Len(s) < n THEN Len(s) ELSE n)

\* s.startswith(t)
startswith(s, t) == Len(s) >= Len(t) /\ SubSeq(s, 1, Len(t)) = t

\* sep.join(items)
RECURSIVE join_with(_, _)
join_with(sep, items) ==
    IF items = <<>> THEN <<>>
    ELSE IF Len(items) = 1 THEN items[1]
    ELSE items[1] \o sep \o join_with(sep, Tail(items))

\* any(kw in s for kw in keywords)
any_in(keywords, s) == \E k \in 1..Len(keywords) : str_in(keywords[k], s)

----------------------------------------------------------------------------
(* Context Extractor (graph/agent_graph.py, 226-330).                      *)

refinamiento_keywords ==
    << <<"a","h","o","r","a">>, <<"p","e","r","o">>, <<"c","o","n">>, <<"c","a","m","b","i","a">>, <<"m","o","d","i","f","i","c","a">>, <<"a","j","u","s","t","a">>,
       <<"e","n"," ","v","e","z">>, <<"e","n"," ","l","u","g","a","r">>, <<"s","i"," ","f","u","e","r","a">>, <<"q","u","é"," ","p","a","s","a"," ","s","i">>,
       <<"y"," ","s","i">>, <<"c","o","n"," ","u","n","a">>, <<"c","o","n"," ","u","n">>, <<"u","s","a","n","d","o">> >>

teoricas_keywords ==
    << <<"q","u","é"," ","e","s">>, <<"q","u","e"," ","e","s">>, <<"d","e","f","i","n","e">>, <<"e","x","p","l","i","c","a">>,
       <<"c","u","á","l"," ","e","s">>, <<"c","u","a","l"," ","e","s">>, <<"c","ó","m","o"," ","s","e">>, <<"c","o","m","o"," ","s","e">>,
       <<"s","i","g","n","i","f","i","c","a","d","o">>, <<"c","o","n","c","e","p","t","o">>, <<"d","i","f","e","r","e","n","c","i","a"," ","e","n","t","r","e">>,
       <<"p","a","r","a"," ","q","u","é"," ","s","i","r","v","e">>, <<"p","o","r"," ","q","u","é">>, <<"p","o","r","q","u","e">> >>

PRACTICA ==
    <<"P","R","A","C","T","I","C","A">>
TEORICA ==
    <<"T","E","O","R","I","C","A">>
AYUDA ==
    <<"A","Y","U","D","A">>

\* lines 248-252: the index of the last HumanMessage, 0 when there is none
last_user_idx(messages_) ==
    IF \E i \in 1..Len(messages_) : messages_[i].type = "human"
    THEN CHOOSE i \in 1..Len(messages_) :
            /\ messages_[i].type = "human"
            /\ \A j \in (i + 1)..Len(messages_) : messages_[j].type # "human"
    ELSE 0

\* mutant: an assistant reply is added whole
RECURSIVE collect_context_Untruncated(_, _, _, _, _, _)
collect_context_Untruncated(messages_, idx, context_messages, turn_count, window_size, categoria_actual) ==
    IF idx < 1 THEN context_messages
    ELSE
      LET msg == messages_[idx]
      IN  IF msg.type = "human"
          THEN IF /\ categoria_actual = PRACTICA
                  /\ any_in(teoricas_keywords, lower(msg.content.val))
               THEN collect_context_Untruncated(messages_, idx - 1, context_messages, turn_count,
                                    window_size, categoria_actual)
               ELSE LET added == <<<<"U","s","u","a","r","i","o",":"," ">> \o msg.content.val>> \o context_messages
                    IN  IF turn_count + 1 >= window_size
                        THEN added
                        ELSE collect_context_Untruncated(messages_, idx - 1, added, turn_count + 1,
                                             window_size, categoria_actual)
          ELSE IF msg.type = "ai"
          THEN IF /\ context_messages # <<>>
                  /\ startswith(context_messages[Len(context_messages)], <<"U","s","u","a","r","i","o",":">>)
               THEN LET content == msg.content.val
                    IN  collect_context_Untruncated(messages_, idx - 1,
                                        <<<<"A","s","i","s","t","e","n","t","e",":"," ">> \o content>> \o context_messages,
                                        turn_count, window_size, categoria_actual)
               ELSE collect_context_Untruncated(messages_, idx - 1, context_messages, turn_count,
                                    window_size, categoria_actual)
          ELSE collect_context_Untruncated(messages_, idx - 1, context_messages, turn_count,
                               window_size, categoria_actual)

\* mutant: a skipped theoretical turn counts towards the window
RECURSIVE collect_context_CountsSkipped(_, _, _, _, _, _)
collect_context_CountsSkipped(messages_, idx, context_messages, turn_count, window_size, categoria_actual) ==
    IF idx < 1 THEN context_messages
    ELSE
      LET msg == messages_[idx]
      IN  IF msg.type = "human"
          THEN IF /\ categoria_actual = PRACTICA
                  /\ any_in(teoricas_keywords, lower(msg.content.val))
               THEN IF turn_count + 1 >= window_size
                    THEN context_messages
                    ELSE collect_context_CountsSkipped(messages_, idx - 1, context_messages,
                                                       turn_count + 1, window_size,
                                                       categoria_actual)
               ELSE LET added == <<<<"U","s","u","a","r","i","o",":"," ">> \o msg.content.val>> \o context_messages
                    IN  IF turn_count + 1 >= window_size
                        THEN added
                        ELSE collect_context_CountsSkipped(messages_, idx - 1, added, turn_count + 1,
                                             window_size, categoria_actual)
          ELSE IF msg.type = "ai"
          THEN IF /\ context_messages # <<>>
                  /\ startswith(context_messages[Len(context_messages)], <<"U","s","u","a","r","i","o",":">>)
               THEN LET content == IF Len(msg.content.val) > 200
                                   THEN prefix(msg.content.val, 200) \o <<".",".",".">>
                                   ELSE msg.content.val
                    IN  collect_context_CountsSkipped(messages_, idx - 1,
                                        <<<<"A","s","i","s","t","e","n","t","e",":"," ">> \o content>> \o context_messages,
                                        turn_count, window_size, categoria_actual)
               ELSE collect_context_CountsSkipped(messages_, idx - 1, context_messages, turn_count,
                                    window_size, categoria_actual)
          ELSE collect_context_CountsSkipped(messages_, idx - 1, context_messages, turn_count,
                               window_size, categoria_actual)

\* lines 276-315: the loop from idx down to the first message; context_messages
\* grows at its front, turn_count counts the user turns added
RECURSIVE collect_context(_, _, _, _, _, _)
collect_context(messages_, idx, context_messages, turn_count, window_size, categoria_actual) ==
    IF idx < 1 THEN context_messages
    ELSE
      LET msg == messages_[idx]
      IN  IF msg.type = "human"
          THEN IF /\ categoria_actual = PRACTICA
                  /\ any_in(teoricas_keywords, lower(msg.content.val))
               THEN collect_context(messages_, idx - 1, context_messages, turn_count,
                                    window_size, categoria_actual)
               ELSE LET added == <<<<"U","s","u","a","r","i","o",":"," ">> \o msg.content.val>> \o context_messages
                    IN  IF turn_count + 1 >= window_size
                        THEN added
                        ELSE collect_context(messages_, idx - 1, added, turn_count + 1,
                                             window_size, categoria_actual)
          ELSE IF msg.type = "ai"
          THEN IF /\ context_messages # <<>>
                  /\ startswith(context_messages[Len(context_messages)], <<"U","s","u","a","r","i","o",":">>)
               THEN LET content == IF Len(msg.content.val) > 200
                                   THEN prefix(msg.content.val, 200) \o <<".",".",".">>
                                   ELSE msg.content.val
                    IN  collect_context(messages_, idx - 1,
                                        <<<<"A","s","i","s","t","e","n","t","e",":"," ">> \o content>> \o context_messages,
                                        turn_count, window_size, categoria_actual)
               ELSE collect_context(messages_, idx - 1, context_messages, turn_count,
                                    window_size, categoria_actual)
          ELSE collect_context(messages_, idx - 1, context_messages, turn_count,
                               window_size, categoria_actual)

extraer_query_con_contexto(messages_, window_size, categoria_actual) ==
    LET last_idx == last_user_idx(messages_)
        last_user_msg == IF last_idx = 0 THEN None ELSE messages_[last_idx].content.val
    IN  IF last_user_msg = None \/ last_user_msg = <<>> THEN None
        ELSE IF ~any_in(refinamiento_keywords, lower(last_user_msg)) THEN last_user_msg
        ELSE LET context_messages ==
                     collect_context(messages_, last_idx - 1, <<>>, 0, window_size,
                                     categoria_actual)
             IN  IF context_messages # <<>>
                 THEN <<"C","O","N","T","E","X","T","O"," ","P","R","E","V","I","O",":","\n"," "," "," "," "," "," "," "," ">> \o join_with(<<"\n">>, context_messages)
                      \o <<"\n","\n"," "," "," "," "," "," "," "," ","N","U","E","V","A"," ","C","O","N","S","U","L","T","A",":","\n"," "," "," "," "," "," "," "," ">> \o last_user_msg
                 ELSE last_user_msg

----------------------------------------------------------------------------
(* Supervisor node and its helpers (graph/agent_graph.py, 136-197,         *)
(* 334-492).  A node reads the state as a record and returns a dict: a     *)
(* record holding only the keys it sets.  state.get(key, default) of a key *)
(* never written reads the default, which is the value FreshState gives.   *)

\* a function returning None where a dict is expected
NoneDict == [is_none |-> TRUE]

Last(s) == s[Len(s)]

\* a.update(b) on dicts with string keys
dict_update(a, b) ==
    [k \in DOMAIN a \cup DOMAIN b |-> IF k \in DOMAIN b THEN b[k] ELSE a[k]]

\* mutant: the open circuit is not looked at
_check_circuit_breaker_status_Never(state) == NoneDict

\* mutant: the circuit closes again once its message has been given
_check_circuit_breaker_status_Recover(state) ==
    IF state.circuit_open
    THEN [messages |-> <<AIMessage(<<"S","i","s","t","e","m","a"," ","d","e","t","e","n","i","d","o"," ","p","o","r"," ","s","e","g","u","r","i","d","a","d">>)>>,
          next_node |-> FINISH,
          circuit_open |-> FALSE]
    ELSE NoneDict

_check_circuit_breaker_status(state) ==
    IF state.circuit_open
    THEN [messages |->
             <<AIMessage(
                 <<"U+1F6A8"," ","*","*","S","i","s","t","e","m","a"," ","d","e","t","e","n","i","d","o"," ","p","o","r"," ","s","e","g","u","r","i","d","a","d","*","*","\n","\n">>
                 \o <<"E","l"," ","a","g","e","n","t","e"," ","h","a"," ","d","e","t","e","c","t","a","d","o"," ","i","n","c","o","n","s","i","s","t","e","n","c","i","a","s"," ","r","e","p","e","t","i","d","a","s",".","\n">>
                 \o <<"*","*","E","r","r","o","r","e","s",":","*","*"," ">> \o int_str(state.error_count)
                 \o <<" ","|"," ","*","*","T","i","p","o","s",":","*","*"," ">> \o dict_str(state.error_types) \o <<"\n","\n">>
                 \o <<"I","n","t","e","n","t","a"," ","r","e","f","o","r","m","u","l","a","r"," ","t","u"," ","p","r","e","g","u","n","t","a"," ","o"," ","p","r","o","p","o","r","c","i","o","n","a","r"," ","t","o","d","o","s"," ","l","o","s"," ","d","a","t","o","s"," ","n","e","c","e","s","a","r","i","o","s",".">>)>>,
          next_node |-> FINISH,
          circuit_open |-> TRUE]
    ELSE NoneDict

NotAnalyzed ==
    [possible_error_detected |-> FALSE, error_type |-> "none",
     error_count_delta |-> 0, error_types_update |-> EmptyDict]

\* mutant: a message that still carries tool calls is analysed too
_analyze_last_message_WithToolCalls(messages_) ==
    IF messages_ # <<>> /\ Last(messages_).type = "ai"
    THEN LET error_type == detect_error_type(Last(messages_))
         IN  IF error_type \in {"tool_failure", "validation", "capability"}
             THEN [possible_error_detected |-> TRUE, error_type |-> error_type,
                   error_count_delta |-> 1,
                   error_types_update |-> dict_set(EmptyDict, error_type, 1)]
             ELSE [NotAnalyzed EXCEPT !.error_type = error_type]
    ELSE NotAnalyzed

\* lines 158-179
_analyze_last_message(messages_) ==
    IF messages_ # <<>> /\ Last(messages_).type = "ai" /\ ~Last(messages_).tool_calls
    THEN LET error_type == detect_error_type(Last(messages_))
         IN  IF error_type \in {"tool_failure", "validation", "capability"}
             THEN [possible_error_detected |-> TRUE, error_type |-> error_type,
                   error_count_delta |-> 1,
                   error_types_update |-> dict_set(EmptyDict, error_type, 1)]
             ELSE [NotAnalyzed EXCEPT !.error_type = error_type]
    ELSE NotAnalyzed

\* mutant: the key added last
max_key_Last(d) == d[Len(d)][1]

\* max(error_types, key=error_types.get): the first key, in insertion order, of
\* the largest value
max_key(d) ==
    d[CHOOSE i \in 1..Len(d) :
        /\ \A j \in 1..Len(d) : d[j][2] <= d[i][2]
        /\ \A j \in 1..(i - 1) : d[j][2] < d[i][2]][1]

_handle_circuit_breaker_activation(error_types_, error_count_) ==
    LET max_error_type == IF error_types_ # <<>> THEN max_key(error_types_) ELSE "unknown"
        error_msg ==
            IF max_error_type = "validation"
            THEN <<"U+26A0","U+FE0F"," ","*","*","F","a","l","t","a","n"," ","D","a","t","o","s","*","*",":"," ","P","o","r"," ","f","a","v","o","r"," ","p","r","o","p","o","r","c","i","o","n","a"," ","t","o","d","o","s"," ","l","o","s"," ","p","a","r","á","m","e","t","r","o","s"," ","r","e","q","u","e","r","i","d","o","s",".">>
            ELSE IF max_error_type = "tool_failure"
            THEN <<"U+1F527"," ","*","*","E","r","r","o","r"," ","T","é","c","n","i","c","o","*","*",":"," ","L","a","s"," ","h","e","r","r","a","m","i","e","n","t","a","s"," ","n","o"," ","e","s","t","á","n"," ","r","e","s","p","o","n","d","i","e","n","d","o"," ","c","o","r","r","e","c","t","a","m","e","n","t","e",".">>
            ELSE <<"U+274C"," ","*","*","P","r","o","c","e","s","a","m","i","e","n","t","o"," ","D","e","t","e","n","i","d","o","*","*",":"," ","D","e","m","a","s","i","a","d","o","s"," ","r","e","i","n","t","e","n","t","o","s"," ","(">>
                 \o int_str(error_count_) \o <<")",".">>
    IN  [messages |-> <<AIMessage(error_msg)>>,
         next_node |-> FINISH,
         circuit_open |-> TRUE]

\* mutant: the entry is overwritten by the increment instead of added to
RECURSIVE add_counts_Overwrite(_, _)
add_counts_Overwrite(error_types_, delta_types) ==
    IF delta_types = <<>> THEN error_types_
    ELSE add_counts_Overwrite(dict_set(error_types_, delta_types[1][1], delta_types[1][2]),
                              Tail(delta_types))

\* lines 356-357: error_types[k] = error_types.get(k, 0) + v for every item
RECURSIVE add_counts(_, _)
add_counts(error_types_, delta_types) ==
    IF delta_types = <<>> THEN error_types_
    ELSE add_counts(dict_set(error_types_, delta_types[1][1],
                             dict_get(error_types_, delta_types[1][1], 0) + delta_types[1][2]),
                    Tail(delta_types))

\* mutant: a counted error that leaves the circuit closed retries a specialist
supervisor_after_reply_Retry(messages_, error_count_, error_types_) ==
    LET a  == _analyze_last_message(messages_)
        ec == IF a.possible_error_detected THEN error_count_ + a.error_count_delta
              ELSE error_count_
        et == IF a.possible_error_detected THEN add_counts(error_types_, a.error_types_update)
              ELSE error_types_
    IN  IF a.possible_error_detected /\ should_open_circuit(et, ec)
        THEN dict_update(_handle_circuit_breaker_activation(et, ec),
                         [error_count |-> ec, error_types |-> et])
        ELSE [next_node |-> IF a.possible_error_detected THEN Agente_Finanzas_Corp ELSE FINISH,
              error_count |-> ec, error_types |-> et]

\* mutant: a counted error adds to error_count and leaves error_types alone
supervisor_after_reply_CountOnly(messages_, error_count_, error_types_) ==
    LET a  == _analyze_last_message(messages_)
        ec == IF a.possible_error_detected THEN error_count_ + a.error_count_delta
              ELSE error_count_
        et == error_types_
    IN  IF a.possible_error_detected /\ should_open_circuit(et, ec)
        THEN dict_update(_handle_circuit_breaker_activation(et, ec),
                         [error_count |-> ec, error_types |-> et])
        ELSE [next_node |-> FINISH, error_count |-> ec, error_types |-> et]

\* lines 352-362: the last message is not a fresh user turn
supervisor_after_reply(messages_, error_count_, error_types_) ==
    LET a  == _analyze_last_message(messages_)
        ec == IF a.possible_error_detected THEN error_count_ + a.error_count_delta
              ELSE error_count_
        et == IF a.possible_error_detected THEN add_counts(error_types_, a.error_types_update)
              ELSE error_types_
    IN  IF a.possible_error_detected /\ should_open_circuit(et, ec)
        THEN dict_update(_handle_circuit_breaker_activation(et, ec),
                         [error_count |-> ec, error_types |-> et])
        ELSE [next_node |-> FINISH, error_count |-> ec, error_types |-> et]

\* mutant: the answer FINISH of the second-level call is taken as a destination
agentes_validos_WithFinish ==
    { Agente_Renta_Fija, Agente_Finanzas_Corp, Agente_Equity, Agente_Portafolio,
      Agente_Derivados, FINISH }

agentes_validos ==
    { Agente_Renta_Fija, Agente_Finanzas_Corp, Agente_Equity, Agente_Portafolio,
      Agente_Derivados }

\* mutant: the portfolio terms are looked for before 'bono'
fallback_por_keywords_BetaFirst(query_con_contexto) ==
    LET combined == lower(query_con_contexto)
    IN  IF any_in(<< <<"c","a","p","m">>, <<"b","e","t","a">>, <<"m","e","d","i","a","n","a">>, <<"p","r","o","m","e","d","i","o">>, <<"d","e","s","v","i","a","c","i","ó","n">> >>,
                  combined)
        THEN Agente_Portafolio
        ELSE IF str_in(<<"b","o","n","o">>, combined) THEN Agente_Renta_Fija
        ELSE IF str_in(<<"o","p","c","i","o","n">>, combined) THEN Agente_Derivados
        ELSE Agente_Finanzas_Corp

\* lines 469-474: the keyword fallback of the second-level selection
fallback_por_keywords(query_con_contexto) ==
    LET combined == lower(query_con_contexto)
    IN  IF str_in(<<"b","o","n","o">>, combined) THEN Agente_Renta_Fija
        ELSE IF any_in(<< <<"c","a","p","m">>, <<"b","e","t","a">>, <<"m","e","d","i","a","n","a">>, <<"p","r","o","m","e","d","i","o">>, <<"d","e","s","v","i","a","c","i","ó","n">> >>,
                       combined)
        THEN Agente_Portafolio
        ELSE IF str_in(<<"o","p","c","i","o","n">>, combined) THEN Agente_Derivados
        ELSE Agente_Finanzas_Corp

\* mutant: the two non-computational dispatches leave the counters as they were
supervisor_route_KeepCounters(messages_, error_count_, error_types_, decision, especialista_msg) ==
    LET last_user_query_raw == Last(messages_).content.val
        extracted == extraer_query_con_contexto(messages_, 2, None)
        query_con_contexto ==
            IF extracted = None \/ extracted = <<>> THEN last_user_query_raw ELSE extracted
        categoria   == IF decision.raises THEN PRACTICA ELSE decision.categoria
        query_final == IF decision.raises THEN query_con_contexto
                       ELSE decision.query_optimizada
    IN  IF categoria = TEORICA
        THEN [update |-> [next_node |-> Agente_RAG,
                          messages |-> <<HumanMessage(query_final)>>,
                          error_count |-> error_count_,
                          error_types |-> error_types_],
              llm_calls |-> 1]
        ELSE IF categoria = AYUDA
        THEN [update |-> [next_node |-> Agente_Ayuda,
                          messages |-> <<HumanMessage(query_con_contexto)>>,
                          error_count |-> error_count_,
                          error_types |-> error_types_],
              llm_calls |-> 1]
        ELSE IF especialista_msg.raises
        THEN [update |-> [next_node |-> Agente_Finanzas_Corp,
                          messages |-> <<HumanMessage(query_con_contexto)>>,
                          error_count |-> error_count_,
                          error_types |-> error_types_],
              llm_calls |-> 2]
        ELSE LET answered == strip(especialista_msg.content)
             IN  [update |-> [next_node |-> IF answered \in agentes_validos THEN answered
                                            ELSE fallback_por_keywords(query_con_contexto),
                              messages |-> <<HumanMessage(query_con_contexto)>>,
                              error_count |-> 0,
                              error_types |-> EmptyDict],
                  llm_calls |-> 2]

\* mutant: a failed classification call is answered with the usage guide
supervisor_route_FailToHelp(messages_, error_count_, error_types_, decision, especialista_msg) ==
    LET last_user_query_raw == Last(messages_).content.val
        extracted == extraer_query_con_contexto(messages_, 2, None)
        query_con_contexto ==
            IF extracted = None \/ extracted = <<>> THEN last_user_query_raw ELSE extracted
        categoria   == IF decision.raises THEN AYUDA ELSE decision.categoria
        query_final == IF decision.raises THEN query_con_contexto
                       ELSE decision.query_optimizada
    IN  IF categoria = TEORICA
        THEN [update |-> [next_node |-> Agente_RAG,
                          messages |-> <<HumanMessage(query_final)>>,
                          error_count |-> 0,
                          error_types |-> EmptyDict],
              llm_calls |-> 1]
        ELSE IF categoria = AYUDA
        THEN [update |-> [next_node |-> Agente_Ayuda,
                          messages |-> <<HumanMessage(query_con_contexto)>>,
                          error_count |-> 0,
                          error_types |-> EmptyDict],
              llm_calls |-> 1]
        ELSE IF especialista_msg.raises
        THEN [update |-> [next_node |-> Agente_Finanzas_Corp,
                          messages |-> <<HumanMessage(query_con_contexto)>>,
                          error_count |-> error_count_,
                          error_types |-> error_types_],
              llm_calls |-> 2]
        ELSE LET answered == strip(especialista_msg.content)
             IN  [update |-> [next_node |-> IF answered \in agentes_validos THEN answered
                                            ELSE fallback_por_keywords(query_con_contexto),
                              messages |-> <<HumanMessage(query_con_contexto)>>,
                              error_count |-> 0,
                              error_types |-> EmptyDict],
                  llm_calls |-> 2]

\* mutant: the dispatch after a failed second-level call resets the counters too
supervisor_route_ResetOnRaise(messages_, error_count_, error_types_, decision, especialista_msg) ==
    LET last_user_query_raw == Last(messages_).content.val
        extracted == extraer_query_con_contexto(messages_, 2, None)
        query_con_contexto ==
            IF extracted = None \/ extracted = <<>> THEN last_user_query_raw ELSE extracted
        categoria   == IF decision.raises THEN PRACTICA ELSE decision.categoria
        query_final == IF decision.raises THEN query_con_contexto
                       ELSE decision.query_optimizada
    IN  IF categoria = TEORICA
        THEN [update |-> [next_node |-> Agente_RAG,
                          messages |-> <<HumanMessage(query_final)>>,
                          error_count |-> 0,
                          error_types |-> EmptyDict],
              llm_calls |-> 1]
        ELSE IF categoria = AYUDA
        THEN [update |-> [next_node |-> Agente_Ayuda,
                          messages |-> <<HumanMessage(query_con_contexto)>>,
                          error_count |-> 0,
                          error_types |-> EmptyDict],
              llm_calls |-> 1]
        ELSE IF especialista_msg.raises
        THEN [update |-> [next_node |-> Agente_Finanzas_Corp,
                          messages |-> <<HumanMessage(query_con_contexto)>>,
                          error_count |-> 0,
                          error_types |-> EmptyDict],
              llm_calls |-> 2]
        ELSE LET answered == strip(especialista_msg.content)
             IN  [update |-> [next_node |-> IF answered \in agentes_validos THEN answered
                                            ELSE fallback_por_keywords(query_con_contexto),
                              messages |-> <<HumanMessage(query_con_contexto)>>,
                              error_count |-> 0,
                              error_types |-> EmptyDict],
                  llm_calls |-> 2]

\* lines 364-492: the last message is a fresh user turn.  decision is the
\* outcome of the structured classification call, especialista_msg that of
\* the second-level call: [raises |-> TRUE] or the value returned.
supervisor_route(messages_, error_count_, error_types_, decision, especialista_msg) ==
    LET last_user_query_raw == Last(messages_).content.val
        extracted == extraer_query_con_contexto(messages_, 2, None)
        query_con_contexto ==
            IF extracted = None \/ extracted = <<>> THEN last_user_query_raw ELSE extracted
        categoria   == IF decision.raises THEN PRACTICA ELSE decision.categoria
        query_final == IF decision.raises THEN query_con_contexto
                       ELSE decision.query_optimizada
    IN  IF categoria = TEORICA
        THEN [update |-> [next_node |-> Agente_RAG,
                          messages |-> <<HumanMessage(query_final)>>,
                          error_count |-> 0,
                          error_types |-> EmptyDict],
              llm_calls |-> 1]
        ELSE IF categoria = AYUDA
        THEN [update |-> [next_node |-> Agente_Ayuda,
                          messages |-> <<HumanMessage(query_con_contexto)>>,
                          error_count |-> 0,
                          error_types |-> EmptyDict],
              llm_calls |-> 1]
        ELSE IF especialista_msg.raises
        THEN [update |-> [next_node |-> Agente_Finanzas_Corp,
                          messages |-> <<HumanMessage(query_con_contexto)>>,
                          error_count |-> error_count_,
                          error_types |-> error_types_],
              llm_calls |-> 2]
        ELSE LET answered == strip(especialista_msg.content)
             IN  [update |-> [next_node |-> IF answered \in agentes_validos THEN answered
                                            ELSE fallback_por_keywords(query_con_contexto),
                              messages |-> <<HumanMessage(query_con_contexto)>>,
                              error_count |-> 0,
                              error_types |-> EmptyDict],
                  llm_calls |-> 2]

\* lines 334-492.  The result is the returned dict (update) and the number of
\* model calls the execution issued (llm_calls).
supervisor_node(state, decision, especialista_msg) ==
    LET cb_status == _check_circuit_breaker_status(state)
    IN  IF cb_status # NoneDict
        THEN [update |-> cb_status, llm_calls |-> 0]
        ELSE IF state.messages = <<>> \/ Last(state.messages).type # "human"
        THEN [update |-> supervisor_after_reply(state.messages, state.error_count,
                                                state.error_types),
              llm_calls |-> 0]
        ELSE supervisor_route(state.messages, state.error_count, state.error_types,
                              decision, especialista_msg)

----------------------------------------------------------------------------
(* A fresh session: no checkpoint exists for the thread yet.               *)

FreshState ==
    /\ messages = <<>>
    /\ next_node = None
    /\ error_count = 0
    /\ error_types = EmptyDict
    /\ circuit_open = FALSE

GraphIdle ==
    /\ pc = Idle
    /\ turns = 0
    /\ sup_runs = 0
    /\ handler_runs = 0
    /\ llm_calls = 0

NoCall == [op |-> "none"]

Pending == [done |-> FALSE]

Returned(v) == [done |-> TRUE, value |-> v]

----------------------------------------------------------------------------
(* Orchestration graph (graph/agent_graph.py, 493-549) driven by the chat  *)
(* endpoint (api.py, 128-191), for one thread.  The checkpointer keeps the *)
(* state between invocations; every node's dict is merged into it: the     *)
(* messages channel by its reducer x + y, any other key by overwriting.    *)

\* chat requests accepted on the thread
MaxTurns == 3

State ==
    [messages |-> messages, next_node |-> next_node, error_count |-> error_count,
     error_types |-> error_types, circuit_open |-> circuit_open]

\* mutant: the messages channel is overwritten like any other key
ApplyUpdate_Overwrite(u) ==
    /\ messages' = IF "messages" \in DOMAIN u THEN u.messages ELSE messages
    /\ next_node' = IF "next_node" \in DOMAIN u THEN u.next_node ELSE next_node
    /\ error_count' = IF "error_count" \in DOMAIN u THEN u.error_count ELSE error_count
    /\ error_types' = IF "error_types" \in DOMAIN u THEN u.error_types ELSE error_types
    /\ circuit_open' = IF "circuit_open" \in DOMAIN u THEN u.circuit_open ELSE circuit_open

\* the state after a node returned dict u (AgentState, lines 50-57)
ApplyUpdate(u) ==
    /\ messages' = IF "messages" \in DOMAIN u THEN messages \o u.messages ELSE messages
    /\ next_node' = IF "next_node" \in DOMAIN u THEN u.next_node ELSE next_node
    /\ error_count' = IF "error_count" \in DOMAIN u THEN u.error_count ELSE error_count
    /\ error_types' = IF "error_types" \in DOMAIN u THEN u.error_types ELSE error_types
    /\ circuit_open' = IF "circuit_open" \in DOMAIN u THEN u.circuit_open ELSE circuit_open

\* lines 506-513: the node after Supervisor
conditional_router(dest) ==
    IF dest \in agent_nodes \/ dest = FINISH THEN dest ELSE FINISH

\* mutant: FINISH leads back to Supervisor
conditional_map_FinishLoops(dest) == IF dest = FINISH THEN Supervisor ELSE dest

\* lines 506-513: FINISH is mapped to END, a handler name to its node
conditional_map(dest) == IF dest = FINISH THEN END ELSE dest

\* mutant: every handler ends the turn
edge_after_AllEnd(name) == END

\* mutant: every handler hands control back to Supervisor
edge_after_AllSupervisor(name) == Supervisor

\* lines 516-522: the node after a handler
edge_after(name) ==
    IF name \in {Agente_Ayuda, Agente_RAG} THEN END
    ELSE IF name = Agente_Sintesis_RAG THEN END
    ELSE Supervisor

\* what a user may send
UserMessages ==
    { <<"a","h","o","r","a"," ","c","o","n"," ","u","n"," ","b","o","n","o">> }

\* outcomes of the structured classification call (DecisionSupervisor, lines 65-75)
Decisions ==
    { [raises |-> TRUE] }
    \cup { [raises |-> FALSE, categoria |-> c, query_optimizada |-> q] :
             c \in {TEORICA, PRACTICA, AYUDA},
             q \in { <<"W","A","C","C"," ","d","e","f","i","n","i","t","i","o","n"," ","f","o","r","m","u","l","a">> } }

\* outcomes of the second-level call
EspecialistaMsgs ==
    { [raises |-> TRUE] }
    \cup { [raises |-> FALSE, content |-> c] :
             c \in { Agente_Equity, <<" ","A","g","e","n","t","e","_","P","o","r","t","a","f","o","l","i","o","\n">>, Agente_Derivados,
                     Agente_RAG } }

\* final replies of a specialist: one per control token of PROTOCOLO_SEGURIDAD
\* (agents/financial_agents.py, 175-201), and one without any
SpecialistReplies ==
    { <<"E","l"," ","V","A","N"," ","e","s"," ","2","8","9","2","."," ","T","A","R","E","A","_","C","O","M","P","L","E","T","A","D","A">>,
      <<"N","e","c","e","s","i","t","o"," ","l","a"," ","t","a","s","a","."," ","F","A","L","T","A","N","_","D","A","T","O","S">>,
      <<"E","r","r","o","r"," ","t","é","c","n","i","c","o",":"," ","d","i","v","i","s","i","ó","n","."," ","E","R","R","O","R","_","B","L","O","Q","U","E","A","N","T","E">>,
      <<"E","s","t","a"," ","e","s"," ","u","n","a"," ","c","o","n","s","u","l","t","a"," ","t","e","ó","r","i","c","a","."," ","T","R","A","N","S","F","E","R","I","R","_","A","_","R","A","G">>,
      <<"N","o"," ","p","u","e","d","o"," ","a","y","u","d","a","r"," ","c","o","n"," ","e","s","o",".">> }

\* api.py 128-168: a chat request starts an invocation, its message is the input
chat_endpoint(message) ==
    /\ pc \in {Idle, END}
    /\ turns < MaxTurns
    /\ messages' = messages \o <<msg_usuario(message, <<"T">> \o int_str(turns + 1))>>
    /\ pc' = Supervisor
    /\ turns' = turns + 1
    /\ sup_runs' = 0
    /\ handler_runs' = 0
    /\ llm_calls' = 0
    /\ UNCHANGED <<next_node, error_count, error_types, circuit_open, harness_vars>>

\* The model calls are reached only on a fresh user turn with the circuit
\* closed (lines 348-362 return before them); in any other state no outcome is
\* drawn and one pair stands for all of them.
ModelOutcomes ==
    IF ~circuit_open /\ messages # <<>> /\ Last(messages).type = "human"
    THEN Decisions \X EspecialistaMsgs
    ELSE {<<[raises |-> TRUE], [raises |-> TRUE]>>}

\* the Supervisor node and the conditional edge after it, for the given
\* outcomes of the model calls
SupervisorStepWith(outcomes) ==
    /\ pc = Supervisor
    /\ \E outcome \in outcomes :
         LET r == supervisor_node(State, outcome[1], outcome[2])
         IN  /\ ApplyUpdate(r.update)
             /\ llm_calls' = llm_calls + r.llm_calls
    /\ pc' = conditional_map(conditional_router(next_node'))
    /\ sup_runs' = sup_runs + 1
    /\ UNCHANGED <<turns, handler_runs, harness_vars>>

SupervisorStep == SupervisorStepWith(ModelOutcomes)

\* a specialist built by create_react_agent: it adds its final reply, an
\* AIMessage without tool calls, and control returns to Supervisor
specialist_node ==
    /\ pc \in Specialists
    /\ \E reply \in SpecialistReplies : ApplyUpdate([messages |-> <<AIMessage(reply)>>])
    /\ pc' = edge_after(pc)
    /\ handler_runs' = handler_runs + 1
    /\ UNCHANGED <<turns, sup_runs, llm_calls, harness_vars>>

\* agents/financial_agents.py 93-99
nodo_ayuda_directo ==
    /\ pc = Agente_Ayuda
    /\ \E raises \in BOOLEAN :
         ApplyUpdate([messages |->
            <<AIMessage(IF raises
                        THEN <<"E","r","r","o","r"," ","a","y","u","d","a",":"," ","f","a","l","l","o","\n","E","R","R","O","R","_","B","L","O","Q","U","E","A","N","T","E">>
                        ELSE <<"E","j","e","m","p","l","o","s"," ","d","e"," ","u","s","o">> \o <<"\n","\n","T","A","R","E","A","_","C","O","M","P","L","E","T","A","D","A">>)>>])
    /\ pc' = edge_after(pc)
    /\ handler_runs' = handler_runs + 1
    /\ UNCHANGED <<turns, sup_runs, llm_calls, harness_vars>>

\* agents/financial_agents.py 101-163: the synthesis reply of the model, or
\* the error reply when the search or the model raises
nodo_rag ==
    /\ pc = Agente_RAG
    /\ \E raises \in BOOLEAN :
         ApplyUpdate([messages |->
            <<AIMessage(IF raises
                        THEN <<"L","o"," ","s","i","e","n","t","o",","," ","h","u","b","o"," ","u","n"," ","e","r","r","o","r"," ","t","é","c","n","i","c","o"," ","a","l"," ","c","o","n","s","u","l","t","a","r"," ","l","a"," ","b","a","s","e"," ","d","e"," ","c","o","n","o","c","i","m","i","e","n","t","o","s","."," ","E","R","R","O","R","_","B","L","O","Q","U","E","A","N","T","E">>
                        ELSE <<"E","l"," ","W","A","C","C"," ","e","s"," ","e","l"," ","c","o","s","t","o"," ","p","r","o","m","e","d","i","o"," ","p","o","n","d","e","r","a","d","o"," ","d","e"," ","c","a","p","i","t","a","l",".">>)>>])
    /\ pc' = edge_after(pc)
    /\ handler_runs' = handler_runs + 1
    /\ UNCHANGED <<turns, sup_runs, llm_calls, harness_vars>>

Init ==
    /\ FreshState
    /\ GraphIdle
    /\ call = NoCall
    /\ result = Pending

Next ==
    \/ \E message \in UserMessages : chat_endpoint(message)
    \/ SupervisorStep
    \/ specialist_node
    \/ nodo_ayuda_directo
    \/ nodo_rag

Spec == Init /\ [][Next]_vars

----------------------------------------------------------------------------
(* Claims about the supervisor and the graph, checked under Spec.          *)

AllOutcomes == Decisions \X EspecialistaMsgs

\* the most recent message is an assistant reply
LastIsReply == messages # <<>> /\ Last(messages).type = "ai"

LastHasToken(token) == LastIsReply /\ str_in(token, Last(messages).content.val)

\* a dict that carries one assistant message with text
CarriesAssistantMessage(u) ==
    /\ "messages" \in DOMAIN u
    /\ Len(u.messages) = 1
    /\ u.messages[1].type = "ai"
    /\ u.messages[1].content.val # <<>>

\* C1: when a Supervisor execution starts with circuit_open true, it returns
\* FINISH with one assistant message and circuit_open = true, consults no model,
\* and the invocation ends there with no handler executed.
C1_OpenCircuitShortCircuits ==
    [][(pc = Supervisor /\ circuit_open) =>
          /\ \A o \in AllOutcomes :
               LET r == supervisor_node(State, o[1], o[2])
               IN  /\ r.update.next_node = FINISH
                   /\ CarriesAssistantMessage(r.update)
                   /\ r.update.circuit_open = TRUE
                   /\ r.llm_calls = 0
          /\ next_node' = FINISH
          /\ circuit_open'
          /\ Len(messages') = Len(messages) + 1
          /\ Last(messages').type = "ai"
          /\ llm_calls' = 0
          /\ handler_runs' = 0
          /\ pc' = END]_vars

\* a turn that started with the circuit open has ended
C1_Witness ==
    /\ pc = END
    /\ circuit_open
    /\ sup_runs = 1
    /\ handler_runs = 0
    /\ llm_calls = 0
    /\ Len(messages) >= 2
    /\ messages[Len(messages) - 1].type = "human"

\* C2: once circuit_open is true, no step of the thread sets it back to false.
C2_CircuitOpenIsLatch == [][circuit_open => circuit_open']_vars

\* the circuit opened in the second turn and a whole further turn has run
C2_Witness == circuit_open /\ turns = 3 /\ pc = END /\ sup_runs = 1

\* C3: with the circuit closed and the last message an assistant reply carrying
\* TRANSFERIR_A_RAG, supervisor_node returns next_node = Agente_RAG.
C3_TransferGoesToRAG ==
    (~circuit_open /\ LastHasToken(TRANSFERIR_A_RAG)) =>
        \A o \in AllOutcomes :
            supervisor_node(State, o[1], o[2]).update.next_node = Agente_RAG

\* C4: whenever the last message is an assistant reply without the transfer
\* token, supervisor_node returns FINISH; and no invocation executes more than
\* one handler.
C4_SingleShotTermination ==
    /\ (LastIsReply /\ ~LastHasToken(TRANSFERIR_A_RAG)) =>
          \A o \in AllOutcomes :
              supervisor_node(State, o[1], o[2]).update.next_node = FINISH
    /\ handler_runs <= 1

\* a specialist asked for missing data and the invocation ended after it
C4_Witness ==
    /\ pc = END
    /\ sup_runs = 2
    /\ handler_runs = 1
    /\ next_node = FINISH
    /\ LastHasToken(FALTAN_DATOS)

\* the last message is a reply the supervisor analyses, of the given kinds
Analysed(kinds) ==
    /\ ~circuit_open
    /\ LastIsReply
    /\ ~Last(messages).tool_calls
    /\ detect_error_type(Last(messages)) \in kinds

\* C5: analysing a reply classified as success, the supervisor returns FINISH
\* with error_count 0 and error_types empty, whatever they were.
C5_SuccessResetsCounters ==
    Analysed({"success"}) =>
        \A o \in AllOutcomes :
            LET u == supervisor_node(State, o[1], o[2]).update
            IN  /\ u.next_node = FINISH
                /\ u.error_count = 0
                /\ u.error_types = EmptyDict

\* C6: analysing a reply classified as an error kind, the supervisor adds 1 to
\* error_count and 1 to the entry of that kind and returns FINISH; when
\* should_open_circuit holds of the new counters the dict also carries the
\* termination message and circuit_open = true, otherwise it leaves messages
\* and circuit_open alone.
C6_ErrorCountsOnce ==
    Analysed({"tool_failure", "validation", "capability"}) =>
        \A o \in AllOutcomes :
            LET u    == supervisor_node(State, o[1], o[2]).update
                kind == detect_error_type(Last(messages))
            IN  /\ u.next_node = FINISH
                /\ u.error_count = error_count + 1
                /\ dict_get(u.error_types, kind, 0) = dict_get(error_types, kind, 0) + 1
                /\ IF should_open_circuit(u.error_types, u.error_count)
                   THEN CarriesAssistantMessage(u) /\ u.circuit_open = TRUE
                   ELSE "circuit_open" \notin DOMAIN u /\ "messages" \notin DOMAIN u

\* the second counted error opened the circuit
C6_Witness ==
    /\ pc = END
    /\ sup_runs = 2
    /\ circuit_open
    /\ error_count = 2
    /\ dict_get(error_types, "tool_failure", 0) + dict_get(error_types, "validation", 0) = 2
    /\ messages[Len(messages) - 1].type = "ai"

----------------------------------------------------------------------------
(* Specification SpecDetect: detect_error_type applied to bounded texts.   *)

Fragments ==
    { <<"T","A","R","E","A","_","C","O","M","P","L","E","T","A","D","A">>,
      <<"t","a","r","e","a","_","c","o","m","p","l","e","t","a","d","a">>,
      <<"T","a","r","e","a","_">>,
      <<"C","o","m","p","l","e","t","a","d","a">>,
      <<"E","R","R","O","R","_","B","L","O","Q","U","E","A","N","T","E">>,
      <<"F","a","l","t","a","n","_","d","a","t","o","s">>,
      <<"T","R","A","N","S","F","E","R","I","R","_","A","_","R","A","G">>,
      <<"P","R","O","B","L","E","M","A"," ","T","É","C","N","I","C","O">>,
      <<"E","l"," ","V","A","N"," ","e","s"," ","2","8","9","2","."," ">> }

PartTypes == {"dict_text", "str", "dict_other"}

AIMessageWith(content) == [type |-> "ai", content |-> content, tool_calls |-> FALSE]

\* the message is a str of up to MaxFragments fragments, or a list with one part
\* (a dict with 'text', a str, or a dict without 'text') per fragment
InitDetect ==
    /\ FreshState
    /\ GraphIdle
    /\ \E n \in 0..MaxFragments : \E fs \in [1..n -> Fragments] :
         \/ call = [op |-> "detect_error_type", message |-> AIMessageWith(StrContent(join(fs)))]
         \/ \E ts \in [1..n -> PartTypes] :
              call = [op |-> "detect_error_type",
                      message |-> AIMessageWith(ListContent(
                                     [i \in 1..n |-> [type |-> ts[i], val |-> fs[i]]]))]
    /\ result = Pending

CallDetect ==
    /\ call.op = "detect_error_type"
    /\ ~result.done
    /\ result' = Returned(detect_error_type(call.message))
    /\ UNCHANGED <<state_vars, graph_vars, call>>

NextDetect == CallDetect

SpecDetect == InitDetect /\ [][NextDetect]_vars

----------------------------------------------------------------------------
(* Specification SpecBreaker: should_open_circuit applied to bounded       *)
(* counters.                                                               *)

ErrorKinds == {"tool_failure", "validation", "capability"}

\* the dicts over the error kinds with values 0..MaxErrors, in every insertion order
BreakerDicts ==
    { d \in UNION { [1..n -> ErrorKinds \X (0..MaxErrors)] : n \in 0..Cardinality(ErrorKinds) } :
        \A i, j \in 1..Len(d) : i # j => d[i][1] # d[j][1] }

InitBreaker ==
    /\ FreshState
    /\ GraphIdle
    /\ call \in { [op |-> "should_open_circuit", error_types |-> d, error_count |-> n] :
                    d \in BreakerDicts, n \in 0..(MaxErrors + 1) }
    /\ result = Pending

CallBreaker ==
    /\ call.op = "should_open_circuit"
    /\ ~result.done
    /\ result' = Returned(should_open_circuit(call.error_types, call.error_count))
    /\ UNCHANGED <<state_vars, graph_vars, call>>

NextBreaker == CallBreaker

SpecBreaker == InitBreaker /\ [][NextBreaker]_vars

----------------------------------------------------------------------------
(* Claims about should_open_circuit, checked under SpecBreaker.            *)

BreakerReturned == call.op = "should_open_circuit" /\ result.done

\* the count a dict holds for a kind, 0 when the kind is absent
CountOf(d, kind) ==
    IF \E i \in 1..Len(d) : d[i][1] = kind
    THEN LET i == CHOOSE i \in 1..Len(d) : d[i][1] = kind IN d[i][2]
    ELSE 0

BreakerCalledWith(d, n) ==
    BreakerReturned /\ call.error_types = d /\ call.error_count = n

\* C7: should_open_circuit is true exactly when tool_failure >= 2, or
\* validation >= 3, or error_count >= 2 (the configured max retries); true for
\* ({tool_failure: 2}, 2) and ({validation: 3}, 3), false for ({validation: 1}, 1).
C7_BreakerPolicy ==
    /\ BreakerReturned =>
          (result.value <=> \/ CountOf(call.error_types, "tool_failure") >= 2
                            \/ CountOf(call.error_types, "validation") >= 3
                            \/ call.error_count >= 2)
    /\ BreakerCalledWith(<<<<"tool_failure", 2>>>>, 2) => result.value = TRUE
    /\ BreakerCalledWith(<<<<"validation", 3>>>>, 3) => result.value = TRUE
    /\ BreakerCalledWith(<<<<"validation", 1>>>>, 1) => result.value = FALSE

\* the validation rule alone opens the circuit
C7_Witness ==
    /\ BreakerReturned
    /\ result.value = TRUE
    /\ CountOf(call.error_types, "validation") = 3
    /\ CountOf(call.error_types, "tool_failure") < 2
    /\ call.error_count < 2

\* C8 as stated: should_open_circuit({validation: 2}, 2) is false.
C8_TwoValidationsStayClosed ==
    BreakerCalledWith(<<<<"validation", 2>>>>, 2) => result.value = FALSE

\* C8 as amended: should_open_circuit({validation: 2}, 2) is true: an
\* error_count of 2 reaches the configured max retries.
C8_TwoValidationsOpenByTotal ==
    BreakerCalledWith(<<<<"validation", 2>>>>, 2) => result.value = TRUE

C8_Witness == BreakerCalledWith(<<<<"validation", 2>>>>, 2) /\ result.value = TRUE

----------------------------------------------------------------------------
(* Claims about detect_error_type, checked under SpecDetect.               *)

DetectReturned == call.op = "detect_error_type" /\ result.done

\* the text of the assistant message: its content, or the text parts of a
\* list content one after the other
RECURSIVE TextOfParts(_)
TextOfParts(parts) ==
    IF parts = <<>> THEN <<>>
    ELSE (IF Head(parts).type = "dict_other" THEN <<>> ELSE Head(parts).val)
         \o TextOfParts(Tail(parts))

AssistantText(m) ==
    IF m.content.type = "str" THEN m.content.val ELSE TextOfParts(m.content.val)

\* the letter c is the upper-case letter u in either case
SameLetter(c, u) == c = u \/ (c \in DOMAIN ToUpper /\ ToUpper[c] = u)

\* the text holds the (upper-case) token, its letters in any case
HasToken(text, token) ==
    \E i \in 0..(Len(text) - Len(token)) :
        \A j \in 1..Len(token) : SameLetter(text[i + j], token[j])

\* the text holds a legacy error phrase, in any case
HasLegacyPhrase(text) ==
    \E k \in 1..Len(LegacyErrorKeywords) : HasToken(text, upper(LegacyErrorKeywords[k]))

\* C9: a text that holds TAREA_COMPLETADA, in any letter case, is classified
\* success whatever else it holds.
C9_SuccessTokenWins ==
    (DetectReturned /\ HasToken(AssistantText(call.message), TAREA_COMPLETADA))
        => result.value = "success"

\* the token in mixed case beside the blocking-error token
C9_Witness ==
    /\ DetectReturned
    /\ HasToken(AssistantText(call.message), TAREA_COMPLETADA)
    /\ ~str_in(TAREA_COMPLETADA, AssistantText(call.message))
    /\ HasToken(AssistantText(call.message), ERROR_BLOQUEANTE)
    /\ result.value = "success"

\* C10 as stated: a text that holds FALTAN_DATOS and not TAREA_COMPLETADA is
\* classified validation.
C10_MissingDataIsValidation ==
    (/\ DetectReturned
     /\ HasToken(AssistantText(call.message), FALTAN_DATOS)
     /\ ~HasToken(AssistantText(call.message), TAREA_COMPLETADA))
        => result.value = "validation"

\* C10 as amended: a text that holds FALTAN_DATOS and neither TAREA_COMPLETADA
\* nor ERROR_BLOQUEANTE is classified validation, a legacy error phrase
\* notwithstanding.
C10_MissingDataWithoutBlocking ==
    (/\ DetectReturned
     /\ HasToken(AssistantText(call.message), FALTAN_DATOS)
     /\ ~HasToken(AssistantText(call.message), TAREA_COMPLETADA)
     /\ ~HasToken(AssistantText(call.message), ERROR_BLOQUEANTE))
        => result.value = "validation"

\* the missing-data token beside a legacy error phrase
C10_Witness ==
    /\ DetectReturned
    /\ HasToken(AssistantText(call.message), FALTAN_DATOS)
    /\ HasLegacyPhrase(AssistantText(call.message))
    /\ result.value = "validation"

----------------------------------------------------------------------------
(* Specification SpecRoute: supervisor_node applied to bounded states and  *)
(* to every outcome of its two model calls.                                *)

\* messages stored before the turn's own message
MaxPrior == 2

PriorMessages ==
    { HumanMessage(<<"p","r","e","c","i","o"," ","d","e"," ","u","n"," ","b","o","n","o">>),
      HumanMessage(<<"q","u","é"," ","e","s"," ","l","a"," ","b","e","t","a">>),
      AIMessage(<<"E","l"," ","p","r","e","c","i","o"," ","e","s"," ","9","5","0","."," ","T","A","R","E","A","_","C","O","M","P","L","E","T","A","D","A">>) }

\* the most recent message: a user text, or a specialist's reply
LastMessages ==
    { HumanMessage(<<"C","a","l","c","u","l","a"," ","e","l"," ","V","A","N">>),
      HumanMessage(<<"a","h","o","r","a"," ","l","a"," ","o","p","c","i","o","n">>),
      HumanMessage(<<"B","e","t","a"," ","d","e"," ","u","n","a"," ","o","p","c","i","o","n">>),
      HumanMessage(<<"y"," ","s","i"," ","u","s","o"," ","l","a"," ","m","e","d","i","a","n","a">>),
      HumanMessage(<<>>),
      AIMessage(<<"N","e","c","e","s","i","t","o"," ","l","a"," ","t","a","s","a","."," ","F","A","L","T","A","N","_","D","A","T","O","S">>) }

\* counters as a thread can hold them with the circuit closed
RouteCounters ==
    { <<0, EmptyDict>>, <<1, <<<<"validation", 1>>>>>> }

\* outcomes of the structured classification call
RouteDecisions ==
    { [raises |-> TRUE] }
    \cup { [raises |-> FALSE, categoria |-> c, query_optimizada |-> <<"b","e","t","a"," ","d","e","f","i","n","i","t","i","o","n">>] :
             c \in {TEORICA, PRACTICA, AYUDA} }

\* outcomes of the second-level call: a registry name, one to be trimmed, and
\* texts that are not a registry name
RouteEspecialistaMsgs ==
    { [raises |-> TRUE] }
    \cup { [raises |-> FALSE, content |-> c] :
             c \in { Agente_Equity, <<" ","A","g","e","n","t","e","_","R","e","n","t","a","_","F","i","j","a","\n">>, <<"a","g","e","n","t","e","_","d","e","r","i","v","a","d","o","s">>,
                     <<"A","g","e","n","t","e","_","E","q","u","i","t","y",".">>, FINISH, Agente_RAG } }

InitRoute ==
    /\ FreshState
    /\ GraphIdle
    /\ \E n \in 0..MaxPrior : \E prior \in [1..n -> PriorMessages] :
       \E last \in LastMessages : \E c \in RouteCounters : \E open \in BOOLEAN :
       \E decision \in RouteDecisions : \E especialista_msg \in RouteEspecialistaMsgs :
         call = [op |-> "supervisor_node",
                 state |-> [messages |-> prior \o <<last>>, next_node |-> None,
                            error_count |-> c[1], error_types |-> c[2],
                            circuit_open |-> open],
                 decision |-> decision,
                 especialista_msg |-> especialista_msg]
    /\ result = Pending

CallRoute ==
    /\ call.op = "supervisor_node"
    /\ ~result.done
    /\ result' = Returned(supervisor_node(call.state, call.decision, call.especialista_msg))
    /\ UNCHANGED <<state_vars, graph_vars, call>>

NextRoute == CallRoute

SpecRoute == InitRoute /\ [][NextRoute]_vars

----------------------------------------------------------------------------
(* Claims about the routing of a fresh user turn, checked under SpecRoute. *)

RouteReturned == call.op = "supervisor_node" /\ result.done

\* the call is made on a fresh user turn with the circuit closed
FreshTurn ==
    /\ RouteReturned
    /\ ~call.state.circuit_open
    /\ Last(call.state.messages).type = "human"

SevenHandlers ==
    { Agente_Finanzas_Corp, Agente_Portafolio, Agente_Renta_Fija, Agente_Equity,
      Agente_Derivados, Agente_RAG, Agente_Ayuda }

Registry ==
    { Agente_Renta_Fija, Agente_Finanzas_Corp, Agente_Equity, Agente_Portafolio,
      Agente_Derivados }

\* the context-bearing query of the call's history
QueryConContexto ==
    LET e == extraer_query_con_contexto(call.state.messages, 2, None)
    IN  IF e = None THEN Last(call.state.messages).content.val ELSE e

\* the category the turn is routed by
Computational == call.decision.raises \/ call.decision.categoria = PRACTICA

Theoretical == ~call.decision.raises /\ call.decision.categoria = TEORICA

Help == ~call.decision.raises /\ call.decision.categoria = AYUDA

RouteUpdate == result.value.update

\* C11: for a fresh user turn with the circuit closed, supervisor_node never
\* returns FINISH: for every outcome of the model calls next_node is one of the
\* seven handlers.
C11_FreshTurnIsDispatched ==
    FreshTurn => /\ RouteUpdate.next_node # FINISH
                 /\ RouteUpdate.next_node \in SevenHandlers

\* the second-level call answered FINISH and the turn still went to a specialist
C11_Witness ==
    /\ FreshTurn
    /\ Computational
    /\ ~call.especialista_msg.raises
    /\ call.especialista_msg.content = FINISH
    /\ RouteUpdate.next_node = Agente_Finanzas_Corp

\* C12: a theoretical turn goes to Agente_RAG with the rewritten query as the
\* last message, a help turn goes to Agente_Ayuda with the context-bearing
\* query, whatever the second-level call would answer; both set error_count to
\* 0 and error_types to empty.
C12_CategoryFixesDestination ==
    /\ (FreshTurn /\ Theoretical) =>
          /\ RouteUpdate.next_node = Agente_RAG
          /\ RouteUpdate.messages = <<HumanMessage(call.decision.query_optimizada)>>
          /\ RouteUpdate.error_count = 0
          /\ RouteUpdate.error_types = EmptyDict
    /\ (FreshTurn /\ Help) =>
          /\ RouteUpdate.next_node = Agente_Ayuda
          /\ RouteUpdate.next_node \notin Registry
          /\ RouteUpdate.messages = <<HumanMessage(QueryConContexto)>>
          /\ RouteUpdate.error_count = 0
          /\ RouteUpdate.error_types = EmptyDict

\* a help turn that refines an earlier one, on a thread with a counted error
C12_Witness ==
    /\ FreshTurn
    /\ Help
    /\ call.state.error_count = 1
    /\ QueryConContexto # Last(call.state.messages).content.val
    /\ RouteUpdate.next_node = Agente_Ayuda
    /\ RouteUpdate.error_count = 0

\* the destination the keywords of a query give, in their priority
KeywordDestination(q) ==
    LET combined == lower(q)
    IN  IF str_in(<<"b","o","n","o">>, combined) THEN Agente_Renta_Fija
        ELSE IF \E kw \in { <<"c","a","p","m">>, <<"b","e","t","a">>, <<"m","e","d","i","a","n","a">>, <<"p","r","o","m","e","d","i","o">>, <<"d","e","s","v","i","a","c","i","ó","n">> } :
                   str_in(kw, combined)
        THEN Agente_Portafolio
        ELSE IF str_in(<<"o","p","c","i","o","n">>, combined) THEN Agente_Derivados
        ELSE Agente_Finanzas_Corp

C14_ModelFailuresFallBack ==
    /\ RouteReturned => "next_node" \in DOMAIN RouteUpdate
    /\ (FreshTurn /\ call.decision.raises) =>
          /\ RouteUpdate.next_node \in Registry
          /\ RouteUpdate.messages = <<HumanMessage(QueryConContexto)>>
          /\ RouteUpdate =
                supervisor_node(call.state,
                                [raises |-> FALSE, categoria |-> PRACTICA,
                                 query_optimizada |-> QueryConContexto],
                                call.especialista_msg).update
    /\ (FreshTurn /\ Computational /\ call.especialista_msg.raises) =>
          /\ RouteUpdate.next_node = Agente_Finanzas_Corp
          /\ RouteUpdate.messages = <<HumanMessage(QueryConContexto)>>

\* both model calls raised
C14_Witness ==
    /\ FreshTurn
    /\ call.decision.raises
    /\ call.especialista_msg.raises
    /\ RouteUpdate.next_node = Agente_Finanzas_Corp

----------------------------------------------------------------------------
(* Claims about the wiring of the graph and its message channel, checked   *)
(* under Spec.                                                             *)

\* C15: every turn enters at Supervisor; after Supervisor the next node is the
\* handler named by next_node, or END when next_node is FINISH or no registered
\* handler; after Agente_Ayuda, Agente_RAG and Agente_Sintesis_RAG the turn
\* ends; after each of the five specialists control returns to Supervisor.
C15_GraphWiring ==
    [][/\ (pc \in {Idle, END} /\ pc' # pc) => pc' = Supervisor
       /\ pc = Supervisor =>
             pc' = (IF next_node' \in agent_nodes THEN next_node' ELSE END)
       /\ pc \in {Agente_Ayuda, Agente_RAG, Agente_Sintesis_RAG} => pc' = END
       /\ pc \in Specialists => pc' = Supervisor
       /\ \A name \in {Agente_Ayuda, Agente_RAG, Agente_Sintesis_RAG} :
             edge_after(name) = END
       /\ \A name \in agent_nodes \ {Agente_Ayuda, Agente_RAG, Agente_Sintesis_RAG} :
             edge_after(name) = Supervisor
       /\ \A dest \in {FINISH, None, <<"A","g","e","n","t","e","_","I","n","e","x","i","s","t","e","n","t","e">>} :
             conditional_map(conditional_router(dest)) = END
       /\ \A dest \in agent_nodes : conditional_map(conditional_router(dest)) = dest]_vars

\* a specialist has replied and control is back at Supervisor
C15_Witness ==
    /\ pc = Supervisor
    /\ handler_runs = 1
    /\ sup_runs = 1
    /\ next_node \in Specialists
    /\ Last(messages).type = "ai"

\* C16: messages is append-only: after any node execution or new turn the
\* previous sequence is a prefix of the new one; the supervisor's rewritten
\* query is a further message after the user's own.
C16_MessagesAppendOnly ==
    [][/\ Len(messages') >= Len(messages)
       /\ SubSeq(messages', 1, Len(messages)) = messages
       /\ (pc = Supervisor /\ Len(messages) >= 1 /\ Last(messages).type = "human"
              /\ ~circuit_open) =>
             /\ Len(messages') = Len(messages) + 1
             /\ Last(messages').type = "human"]_vars

\* a second turn has run on the thread: two user messages, each followed by the
\* supervisor's query and a reply
C16_Witness ==
    /\ turns = 2
    /\ pc = END
    /\ Len(messages) >= 6
    /\ messages[1].type = "human"
    /\ messages[2].type = "human"
    /\ messages[3].type = "ai"
    /\ messages[4].type = "human"
    /\ messages[5].type = "human"

----------------------------------------------------------------------------
(* Specification SpecExtract: extraer_query_con_contexto applied twice to  *)
(* bounded histories, for every window size and category.                  *)

\* messages of a history
MaxHistory == 3

\* user texts without and with a refinement marker, with a theoretical
\* keyword, the empty text a chat request may carry, and an assistant reply
HistoryMessages ==
    { HumanMessage(<<"C","a","l","c","u","l","a"," ","e","l"," ","V","A","N">>),
      HumanMessage(<<"q","u","é"," ","e","s"," ","l","a"," ","b","e","t","a">>),
      HumanMessage(<<"a","h","o","r","a"," ","c","o","n"," ","u","n"," ","b","o","n","o">>),
      HumanMessage(<<>>),
      AIMessage(<<"E","l"," ","p","r","e","c","i","o"," ","e","s"," ","9","5","0","."," ","T","A","R","E","A","_","C","O","M","P","L","E","T","A","D","A">>) }

WindowSizes == {1, 2}

Categorias == {None, PRACTICA, TEORICA}

InitExtract ==
    /\ FreshState
    /\ GraphIdle
    /\ \E n \in 0..MaxHistory : \E history \in [1..n -> HistoryMessages] :
       \E window_size \in WindowSizes : \E categoria_actual \in Categorias :
         call = [op |-> "extraer_query_con_contexto", messages |-> history,
                 window_size |-> window_size, categoria_actual |-> categoria_actual]
    /\ result = Pending

\* the first call on the history
CallExtract ==
    /\ call.op = "extraer_query_con_contexto"
    /\ ~result.done
    /\ result' = Returned(extraer_query_con_contexto(call.messages, call.window_size,
                                                     call.categoria_actual))
    /\ UNCHANGED <<state_vars, graph_vars, call>>

\* a second call on the same history; the first call's value is kept
CallExtractAgain ==
    /\ call.op = "extraer_query_con_contexto"
    /\ result.done
    /\ "again" \notin DOMAIN result
    /\ result' = [done |-> TRUE, value |-> result.value,
                  again |-> extraer_query_con_contexto(call.messages, call.window_size,
                                                       call.categoria_actual)]
    /\ UNCHANGED <<state_vars, graph_vars, call>>

NextExtract == CallExtract \/ CallExtractAgain

SpecExtract == InitExtract /\ [][NextExtract]_vars

----------------------------------------------------------------------------
(* Claims about extraer_query_con_contexto, checked under SpecExtract.     *)

ExtractReturned == call.op = "extraer_query_con_contexto" /\ result.done

HasUserTurn == \E i \in 1..Len(call.messages) : call.messages[i].type = "human"

\* the text of the latest user turn of the history
LatestUserText ==
    LET i == CHOOSE i \in 1..Len(call.messages) :
                /\ call.messages[i].type = "human"
                /\ \A j \in (i + 1)..Len(call.messages) : call.messages[j].type # "human"
    IN  call.messages[i].content.val

HasRefinementMarker(text) ==
    \E i \in 1..Len(refinamiento_keywords) : str_in(refinamiento_keywords[i], lower(text))

\* C17: for a history whose latest user turn contains no refinement marker,
\* extraer_query_con_contexto returns that turn's text verbatim, whatever the
\* earlier history, the window size and the category, and a second call on the
\* same history returns the same string.
C17_IsolatedQueryVerbatim ==
    (ExtractReturned /\ HasUserTurn /\ ~HasRefinementMarker(LatestUserText)) =>
        /\ result.value = LatestUserText
        /\ "again" \in DOMAIN result => result.again = LatestUserText

\* C18: the output is a non-empty string whenever the history contains a user
\* turn, whatever that turn's text is, and failure (None) is signalled exactly
\* when the history contains no user turn.
C18_NonEmptyUnlessNoUserTurn ==
    ExtractReturned =>
        /\ HasUserTurn => (result.value # None /\ result.value # <<>>)
        /\ result.value = None <=> ~HasUserTurn

----------------------------------------------------------------------------
(* History endpoint (api.py, 42-124).  values is the stored state of the   *)
(* thread as get_state gives it: a record with the messages, or the empty  *)
(* function when no checkpoint exists.                                     *)

\* a thread without a checkpoint: current_state.values is empty
NoValues == <<>>

\* an AIMessage that only calls tools: no text
AIToolCall == [type |-> "ai", content |-> StrContent(<<>>), tool_calls |-> TRUE]

ToolMessage(s) == [type |-> "tool", content |-> StrContent(s), tool_calls |-> FALSE]

\* msg.additional_kwargs.get("timestamp")
timestamp_of(msg) ==
    IF "additional_kwargs" \in DOMAIN msg THEN msg.additional_kwargs.timestamp ELSE None

\* lines 80-91: the role of a stored message, "" when the message is skipped
role_of(msg) ==
    IF msg.type = "human" THEN "usuario"
    ELSE IF msg.type = "ai" THEN (IF msg.content.val = <<>> THEN "" ELSE "bot")
    ELSE ""

\* mutant: a user message is kept also when the last kept one is a user message
RECURSIVE build_history_NoCollapse(_, _)
build_history_NoCollapse(raw_messages, history) ==
    IF raw_messages = <<>> THEN history
    ELSE LET msg  == Head(raw_messages)
             role == role_of(msg)
         IN  IF role = ""
             THEN build_history_NoCollapse(Tail(raw_messages), history)
             ELSE build_history_NoCollapse(
                      Tail(raw_messages),
                      Append(history, [id |-> <<"h","i","s","t","-">> \o int_str(Len(history)),
                                       de |-> role,
                                       texto |-> msg.content,
                                       fecha |-> timestamp_of(msg)]))

\* lines 78-106: the loop over raw_messages; history is the list built so far
RECURSIVE build_history(_, _)
build_history(raw_messages, history) ==
    IF raw_messages = <<>> THEN history
    ELSE LET msg  == Head(raw_messages)
             role == role_of(msg)
         IN  IF role = ""
             THEN build_history(Tail(raw_messages), history)
             ELSE IF role = "usuario" /\ history # <<>> /\ Last(history).de = "usuario"
             THEN build_history(Tail(raw_messages), history)
             ELSE build_history(
                      Tail(raw_messages),
                      Append(history, [id |-> <<"h","i","s","t","-">> \o int_str(Len(history)),
                                       de |-> role,
                                       texto |-> msg.content,
                                       fecha |-> timestamp_of(msg)]))

\* list.reverse()
reverse(s) == [i \in 1..Len(s) |-> s[Len(s) + 1 - i]]

\* mutant: the item at index b is taken too
slice_Inclusive(s, a, b) == SubSeq(s, a + 1, IF b + 1 < Len(s) THEN b + 1 ELSE Len(s))

\* s[a:b] for 0 <= a, 0 <= b
slice(s, a, b) == SubSeq(s, a + 1, IF b < Len(s) THEN b ELSE Len(s))

\* mutant: a page that ends exactly at the oldest item still reports more
get_history_MoreAtEnd(thread_id, limit, offset, values) ==
    IF startswith(thread_id, <<"g","u","e","s","t","_">>)
    THEN [messages |-> <<>>, hasMore |-> FALSE, total |-> 0, isGuest |-> TRUE]
    ELSE IF DOMAIN values = {}
    THEN [messages |-> <<>>, hasMore |-> FALSE, total |-> 0]
    ELSE LET history == reverse(build_history(values.messages, <<>>))
         IN  [messages |-> slice(history, offset, offset + limit),
              hasMore |-> (offset + limit) <= Len(history),
              total |-> Len(history)]

\* mutant: the guest prefix is not looked at
get_history_GuestStored(thread_id, limit, offset, values) ==
    IF DOMAIN values = {}
    THEN [messages |-> <<>>, hasMore |-> FALSE, total |-> 0]
    ELSE LET history == reverse(build_history(values.messages, <<>>))
         IN  [messages |-> slice(history, offset, offset + limit),
              hasMore |-> (offset + limit) < Len(history),
              total |-> Len(history)]

\* lines 42-120
get_history(thread_id, limit, offset, values) ==
    IF startswith(thread_id, <<"g","u","e","s","t","_">>)
    THEN [messages |-> <<>>, hasMore |-> FALSE, total |-> 0, isGuest |-> TRUE]
    ELSE IF DOMAIN values = {}
    THEN [messages |-> <<>>, hasMore |-> FALSE, total |-> 0]
    ELSE LET history == reverse(build_history(values.messages, <<>>))
         IN  [messages |-> slice(history, offset, offset + limit),
              hasMore |-> (offset + limit) < Len(history),
              total |-> Len(history)]

----------------------------------------------------------------------------
(* Specification SpecHistory: get_history applied to the stored messages   *)
(* of bounded threads.  A thread's messages are those of its turns: the    *)
(* user's message, the query the supervisor adds after it on a dispatch,   *)
(* and what the handler returned.                                          *)

\* turns stored on a thread
MaxStoredTurns == 2

\* largest limit and offset of a request
MaxLimit == 3

MaxOffset == 4

\* the query added by supervisor_node: none when the circuit is open
SupervisorQueries ==
    { <<>>, <<HumanMessage(<<"C","a","l","c","u","l","a"," ","e","l"," ","V","A","N">>)>> }

\* what a handler leaves: a reply, the messages of a tool round and the reply,
\* or a last message without text
HandlerOutputs ==
    { <<AIMessage(<<"E","l"," ","V","A","N"," ","e","s"," ","2","8","9","2","."," ","T","A","R","E","A","_","C","O","M","P","L","E","T","A","D","A">>)>>,
      <<AIToolCall, ToolMessage(<<"2","8","9","2">>), AIMessage(<<"E","l"," ","V","A","N"," ","e","s"," ","2","8","9","2","."," ","T","A","R","E","A","_","C","O","M","P","L","E","T","A","D","A">>)>>,
      <<AIToolCall>> }

\* the messages of turns first..n, turn k being stamped with time k
RECURSIVE stored_turns(_, _, _, _)
stored_turns(first, n, queries, outputs) ==
    IF first > n THEN <<>>
    ELSE <<msg_usuario(<<"C","a","l","c","u","l","a"," ","e","l"," ","V","A","N">>, <<"T">> \o int_str(first))>>
         \o queries[first] \o outputs[first]
         \o stored_turns(first + 1, n, queries, outputs)

ThreadIds == { <<"j","u","a","n","@","g","m","a","i","l",".","c","o","m">>, <<"g","u","e","s","t","_","7","f","3","a">> }

InitHistory ==
    /\ FreshState
    /\ GraphIdle
    /\ \E thread_id \in ThreadIds : \E limit \in 1..MaxLimit : \E offset \in 0..MaxOffset :
         \/ call = [op |-> "get_history", thread_id |-> thread_id, limit |-> limit,
                    offset |-> offset, values |-> NoValues]
         \/ \E n \in 1..MaxStoredTurns :
            \E queries \in [1..n -> SupervisorQueries] : \E outputs \in [1..n -> HandlerOutputs] :
              call = [op |-> "get_history", thread_id |-> thread_id, limit |-> limit,
                      offset |-> offset,
                      values |-> [messages |-> stored_turns(1, n, queries, outputs)]]
    /\ result = Pending

CallHistory ==
    /\ call.op = "get_history"
    /\ ~result.done
    /\ result' = Returned(get_history(call.thread_id, call.limit, call.offset, call.values))
    /\ UNCHANGED <<state_vars, graph_vars, call>>

NextHistory == CallHistory

SpecHistory == InitHistory /\ [][NextHistory]_vars

----------------------------------------------------------------------------
(* Claims about the history endpoint, checked under SpecHistory.           *)

HistoryReturned == call.op = "get_history" /\ result.done

IsGuestThread == startswith(call.thread_id, <<"g","u","e","s","t","_">>)

\* the messages stored on the thread of the call
StoredMessages == IF DOMAIN call.values = {} THEN <<>> ELSE call.values.messages

\* the transcript get_history pages: none is built for a guest thread
Transcript ==
    IF IsGuestThread THEN <<>> ELSE reverse(build_history(StoredMessages, <<>>))

MinOf(a, b) == IF a < b THEN a ELSE b

MaxOf(a, b) == IF a > b THEN a ELSE b

\* C19: for a transcript of T items, a request with limit L and offset O
\* returns the items at positions O .. O+L-1 of the reverse-chronological
\* transcript, min(L, max(0, T-O)) of them, total = T, and hasMore exactly when
\* O + L < T.
C19_HistoryPagination ==
    HistoryReturned =>
        LET T == Len(Transcript)
            L == call.limit
            O == call.offset
            page == result.value.messages
        IN  /\ result.value.total = T
            /\ Len(page) = MinOf(L, MaxOf(0, T - O))
            /\ \A k \in 1..Len(page) : page[k] = Transcript[O + k]
            /\ result.value.hasMore <=> (O + L < T)

\* a page from inside a longer transcript, with older items left
C19_Witness ==
    /\ HistoryReturned
    /\ ~IsGuestThread
    /\ Len(Transcript) = 4
    /\ call.offset = 1
    /\ call.limit = 2
    /\ Len(result.value.messages) = 2
    /\ result.value.hasMore

\* a stored message the transcript may show: a user message, or an assistant
\* message with text
Eligible(i) ==
    \/ StoredMessages[i].type = "human"
    \/ StoredMessages[i].type = "ai" /\ StoredMessages[i].content.val # <<>>

\* the eligible message before position i is a user message
FollowsUserMessage(i) ==
    \E j \in 1..(i - 1) :
        /\ Eligible(j)
        /\ StoredMessages[j].type = "human"
        /\ \A k \in (j + 1)..(i - 1) : ~Eligible(k)

\* positions of the stored messages the transcript shows
Shown(i) ==
    /\ Eligible(i)
    /\ ~(StoredMessages[i].type = "human" /\ FollowsUserMessage(i))

\* a query added by the supervisor: a user-typed message without request time
IsSupervisorQuery(msg) == msg.type = "human" /\ "additional_kwargs" \notin DOMAIN msg

\* the whole transcript as the endpoint returns it
WholeHistory ==
    get_history(call.thread_id, Len(StoredMessages) + 1, 0, call.values).messages

\* C20: the transcript is the stored messages without the empty assistant
\* messages and the non-user/non-assistant messages, with only the earliest
\* message of every run of consecutive user messages, reversed; no two adjacent
\* items are user items and no query added by the supervisor is shown.
C20_TranscriptFilter ==
    (HistoryReturned /\ ~IsGuestThread) =>
        LET shown == SelectSeq([i \in 1..Len(StoredMessages) |-> i], Shown)
            n     == Len(shown)
        IN  /\ Len(WholeHistory) = n
            /\ result.value.total = n
            /\ \A k \in 1..n :
                 LET msg  == StoredMessages[shown[n + 1 - k]]
                     item == WholeHistory[k]
                 IN  /\ item.texto = msg.content
                     /\ item.de = (IF msg.type = "human" THEN "usuario" ELSE "bot")
                     /\ item.fecha = timestamp_of(msg)
                     /\ ~IsSupervisorQuery(msg)
            /\ \A k \in 1..(n - 1) :
                 ~(WholeHistory[k].de = "usuario" /\ WholeHistory[k + 1].de = "usuario")
            /\ \A k \in 1..n : WholeHistory[k].de = "usuario" => WholeHistory[k].fecha # None

\* two turns with a supervisor query each and a tool round in the second
C20_Witness ==
    /\ HistoryReturned
    /\ ~IsGuestThread
    /\ Len(StoredMessages) = 8
    /\ IsSupervisorQuery(StoredMessages[2])
    /\ IsSupervisorQuery(StoredMessages[5])
    /\ StoredMessages[6] = AIToolCall
    /\ result.value.total = 4
    /\ call.limit = 3
    /\ call.offset = 0
    /\ Len(result.value.messages) = 3

----------------------------------------------------------------------------
(* Session-status endpoint (api.py, 195-236) and specification SpecSession:*)
(* the chat turns of one thread, a guest's or a user's, followed by a      *)
(* history or session-status request on that thread.  The compiled graph   *)
(* keeps a checkpoint per thread_id, whatever its prefix.                  *)

\* lines 221-222: the user messages and the assistant messages with text
RECURSIVE message_count(_)
message_count(raw_messages) ==
    IF raw_messages = <<>> THEN 0
    ELSE (IF \/ Head(raw_messages).type = "human"
             \/ Head(raw_messages).type = "ai" /\ Head(raw_messages).content.val # <<>>
          THEN 1 ELSE 0)
         + message_count(Tail(raw_messages))

session_status(thread_id, values) ==
    IF startswith(thread_id, <<"g","u","e","s","t","_">>)
    THEN [isGuest |-> TRUE, hasHistory |-> FALSE, messageCount |-> 0]
    ELSE IF DOMAIN values = {}
    THEN [isGuest |-> FALSE, hasHistory |-> FALSE, messageCount |-> 0]
    ELSE [isGuest |-> FALSE,
          hasHistory |-> message_count(values.messages) > 0,
          messageCount |-> message_count(values.messages)]

\* compiled_graph.get_state(config).values: empty until the thread has run
Values ==
    IF turns = 0 THEN NoValues
    ELSE [messages |-> messages, next_node |-> next_node, error_count |-> error_count,
          error_types |-> error_types, circuit_open |-> circuit_open]

InitSession ==
    /\ FreshState
    /\ GraphIdle
    /\ \E thread_id \in ThreadIds : call = [op |-> "session", thread_id |-> thread_id]
    /\ result = Pending

\* a step of the thread's graph, or a new chat request on it
SessionStep ==
    /\ call.op = "session"
    /\ ~result.done
    /\ Next

HistoryRequest ==
    /\ call.op = "session"
    /\ ~result.done
    /\ pc \in {Idle, END}
    /\ \E limit \in 1..MaxLimit : \E offset \in 0..MaxOffset :
         result' = Returned([request |-> "history",
                             response |-> get_history(call.thread_id, limit, offset, Values)])
    /\ UNCHANGED <<state_vars, graph_vars, call>>

StatusRequest ==
    /\ call.op = "session"
    /\ ~result.done
    /\ pc \in {Idle, END}
    /\ result' = Returned([request |-> "status",
                           response |-> session_status(call.thread_id, Values)])
    /\ UNCHANGED <<state_vars, graph_vars, call>>

NextSession == SessionStep \/ HistoryRequest \/ StatusRequest

SpecSession == InitSession /\ [][NextSession]_vars

----------------------------------------------------------------------------
(* Claims about guest threads, checked under SpecSession.                  *)

GuestSession == call.op = "session" /\ startswith(call.thread_id, <<"g","u","e","s","t","_">>)

\* C21: on a thread_id with the guest prefix the history request returns an
\* empty list with hasMore = false and total = 0, and the session-status
\* request returns hasHistory = false and messageCount = 0, after any sequence
\* of chat turns on the thread.
C21_GuestReportsEmpty ==
    (GuestSession /\ result.done) =>
        /\ result.value.request = "history" =>
              /\ result.value.response.messages = <<>>
              /\ result.value.response.hasMore = FALSE
              /\ result.value.response.total = 0
        /\ result.value.request = "status" =>
              /\ result.value.response.hasHistory = FALSE
              /\ result.value.response.messageCount = 0

\* the history of a guest thread is asked for after two chat turns on it
C21_Witness ==
    /\ GuestSession
    /\ turns = 2
    /\ Len(messages) >= 4
    /\ result.done
    /\ result.value.request = "history"
    /\ result.value.response.total = 0

\* C22: a chat turn on a guest thread leaves no stored state: a later chat turn
\* on the same thread_id starts from an empty message history and default
\* counters.
C22_GuestThreadsNeverPersist ==
    [][(GuestSession /\ pc \in {Idle, END} /\ pc' = Supervisor) =>
          /\ Len(messages') = 1
          /\ error_count = 0
          /\ error_types = EmptyDict
          /\ ~circuit_open]_vars

----------------------------------------------------------------------------
(* Retrieval client (agents/financial_agents.py, 49-87).  The function     *)
(* reads the configured RAG_API_URL and posts one request; outcome is what *)
(* the request does: it raises (a timeout, a connection error) or gives a  *)
(* response with a status code, a text and a body.  The result says        *)
(* whether an exception leaves the function, and the value returned.       *)

\* s.rstrip(chars)
RECURSIVE rstrip_chars(_, _)
rstrip_chars(s, chars) ==
    IF s # <<>> /\ s[Len(s)] \in chars THEN rstrip_chars(SubSeq(s, 1, Len(s) - 1), chars)
    ELSE s

NoRequest == [sent |-> FALSE]

NothingFound ==
    <<"N","o"," ","s","e"," ","e","n","c","o","n","t","r","ó"," ","i","n","f","o","r","m","a","c","i","ó","n"," ","r","e","l","e","v","a","n","t","e",".">>

\* mutant: the request is made outside the try block
buscar_documentacion_financiera_Unguarded(rag_api_url, consulta, outcome) ==
    IF rag_api_url = None \/ rag_api_url = <<>>
    THEN [raises |-> FALSE,
          value |-> <<"U+274C"," ","E","r","r","o","r"," ","d","e"," ","c","o","n","f","i","g","u","r","a","c","i","ó","n",":"," ","R","A","G","_","A","P","I","_","U","R","L"," ","n","o"," ","d","e","f","i","n","i","d","a",".">>,
          request |-> NoRequest]
    ELSE
      LET request == [sent |-> TRUE,
                      endpoint |-> rstrip_chars(rag_api_url, {"/"}) \o <<"/","s","e","a","r","c","h">>,
                      consulta |-> consulta,
                      timeout |-> 20]
      IN  IF outcome.kind = "raises"
          THEN [raises |-> TRUE, request |-> request]
          ELSE IF outcome.status_code = 200
          THEN IF ~outcome.body.json
               THEN [raises |-> FALSE,
                     value |-> <<"E","r","r","o","r"," ","d","e"," ","C","o","n","e","x","i","ó","n"," ","c","o","n"," ","R","A","G",":"," ">> \o <<"E","x","p","e","c","t","i","n","g"," ","v","a","l","u","e">>,
                     request |-> request]
               ELSE IF ~outcome.body.dict
               THEN [raises |-> FALSE,
                     value |-> <<"E","r","r","o","r"," ","d","e"," ","C","o","n","e","x","i","ó","n"," ","c","o","n"," ","R","A","G",":"," ">>
                               \o <<"'","l","i","s","t","'"," ","o","b","j","e","c","t"," ","h","a","s"," ","n","o"," ","a","t","t","r","i","b","u","t","e"," ","'","g","e","t","'">>,
                     request |-> request]
               ELSE [raises |-> FALSE,
                     value |-> dict_get(outcome.body.fields, "resultado", NothingFound),
                     request |-> request]
          ELSE [raises |-> FALSE,
                value |-> <<"E","r","r","o","r"," ","d","e","l"," ","S","e","r","v","i","c","i","o"," ","R","A","G"," ","(">> \o int_str(outcome.status_code)
                          \o <<")",":"," ">> \o outcome.text,
                request |-> request]

buscar_documentacion_financiera(rag_api_url, consulta, outcome) ==
    IF rag_api_url = None \/ rag_api_url = <<>>
    THEN [raises |-> FALSE,
          value |-> <<"U+274C"," ","E","r","r","o","r"," ","d","e"," ","c","o","n","f","i","g","u","r","a","c","i","ó","n",":"," ","R","A","G","_","A","P","I","_","U","R","L"," ","n","o"," ","d","e","f","i","n","i","d","a",".">>,
          request |-> NoRequest]
    ELSE
      LET request == [sent |-> TRUE,
                      endpoint |-> rstrip_chars(rag_api_url, {"/"}) \o <<"/","s","e","a","r","c","h">>,
                      consulta |-> consulta,
                      timeout |-> 20]
      IN  IF outcome.kind = "raises"
          THEN [raises |-> FALSE,
                value |-> <<"E","r","r","o","r"," ","d","e"," ","C","o","n","e","x","i","ó","n"," ","c","o","n"," ","R","A","G",":"," ">> \o outcome.text,
                request |-> request]
          ELSE IF outcome.status_code = 200
          THEN IF ~outcome.body.json
               THEN [raises |-> FALSE,
                     value |-> <<"E","r","r","o","r"," ","d","e"," ","C","o","n","e","x","i","ó","n"," ","c","o","n"," ","R","A","G",":"," ">> \o <<"E","x","p","e","c","t","i","n","g"," ","v","a","l","u","e">>,
                     request |-> request]
               ELSE IF ~outcome.body.dict
               THEN [raises |-> FALSE,
                     value |-> <<"E","r","r","o","r"," ","d","e"," ","C","o","n","e","x","i","ó","n"," ","c","o","n"," ","R","A","G",":"," ">>
                               \o <<"'","l","i","s","t","'"," ","o","b","j","e","c","t"," ","h","a","s"," ","n","o"," ","a","t","t","r","i","b","u","t","e"," ","'","g","e","t","'">>,
                     request |-> request]
               ELSE [raises |-> FALSE,
                     value |-> dict_get(outcome.body.fields, "resultado", NothingFound),
                     request |-> request]
          ELSE [raises |-> FALSE,
                value |-> <<"E","r","r","o","r"," ","d","e","l"," ","S","e","r","v","i","c","i","o"," ","R","A","G"," ","(">> \o int_str(outcome.status_code)
                          \o <<")",":"," ">> \o outcome.text,
                request |-> request]

----------------------------------------------------------------------------
(* Specification SpecClient: the retrieval client applied to every         *)
(* configuration and request outcome.                                      *)

RagApiUrls ==
    { None, <<>>, <<"h","t","t","p","s",":","/","/","r","a","g","-","s","e","r","v","i","c","e",".","r","u","n",".","a","p","p","/">>, <<"h","t","t","p",":","/","/","r","a","g",":","8","0","0","0">> }

Consultas ==
    { <<"W","A","C","C"," ","d","e","f","i","n","i","t","i","o","n"," ","f","o","r","m","u","l","a">>, <<"m","e","d","i","a","n">>, <<>> }

StatusCodes == {200, 404, 500, 503}

ResponseBodies ==
    { [json |-> FALSE],
      [json |-> TRUE, dict |-> FALSE],
      [json |-> TRUE, dict |-> TRUE, fields |-> <<>>],
      [json |-> TRUE, dict |-> TRUE, fields |-> << <<"detail", <<"v","a","c","í","o">>>> >>],
      [json |-> TRUE, dict |-> TRUE,
       fields |-> << <<"resultado", <<"E","l"," ","W","A","C","C"," ","p","o","n","d","e","r","a"," ","d","e","u","d","a"," ","y"," ","c","a","p","i","t","a","l",".">>>> >>] }

RequestOutcomes ==
    { [kind |-> "raises", exception |-> "Timeout", text |-> <<"R","e","a","d"," ","t","i","m","e","d"," ","o","u","t",".">>],
      [kind |-> "raises", exception |-> "ConnectionError", text |-> <<"C","o","n","n","e","c","t","i","o","n"," ","r","e","f","u","s","e","d">>] }
    \cup { [kind |-> "response", status_code |-> s, text |-> <<"u","p","s","t","r","e","a","m">>, body |-> b] :
             s \in StatusCodes, b \in ResponseBodies }

InitClient ==
    /\ FreshState
    /\ GraphIdle
    /\ \E rag_api_url \in RagApiUrls : \E consulta \in Consultas :
       \E outcome \in RequestOutcomes :
         call = [op |-> "buscar_documentacion_financiera", rag_api_url |-> rag_api_url,
                 consulta |-> consulta, outcome |-> outcome]
    /\ result = Pending

CallClient ==
    /\ call.op = "buscar_documentacion_financiera"
    /\ ~result.done
    /\ result' = Returned(buscar_documentacion_financiera(call.rag_api_url, call.consulta,
                                                          call.outcome))
    /\ UNCHANGED <<state_vars, graph_vars, call>>

NextClient == CallClient

SpecClient == InitClient /\ [][NextClient]_vars

----------------------------------------------------------------------------
(* Claim about the retrieval client, checked under SpecClient.             *)

ClientReturned == call.op = "buscar_documentacion_financiera" /\ result.done

UrlMissing == call.rag_api_url = None \/ call.rag_api_url = <<>>

\* C23: the retrieval client never raises to its caller: a missing service
\* URL, a non-200 response, a timeout and a connection exception each give an
\* error text as the return value, and a 200 response without a result field
\* gives the 'nothing found' text.
C23_ClientNeverRaises ==
    ClientReturned =>
        /\ ~result.value.raises
        /\ UrlMissing =>
              /\ str_in(<<"E","r","r","o","r"," ","d","e"," ","c","o","n","f","i","g","u","r","a","c","i","ó","n">>, result.value.value)
              /\ ~result.value.request.sent
        /\ (~UrlMissing /\ call.outcome.kind = "raises") =>
              startswith(result.value.value, <<"E","r","r","o","r"," ","d","e"," ","C","o","n","e","x","i","ó","n"," ","c","o","n"," ","R","A","G",":"," ">>)
        /\ (~UrlMissing /\ call.outcome.kind = "response"
               /\ call.outcome.status_code # 200) =>
              startswith(result.value.value, <<"E","r","r","o","r"," ","d","e","l"," ","S","e","r","v","i","c","i","o"," ","R","A","G"," ","(">>)
        /\ (~UrlMissing /\ call.outcome.kind = "response"
               /\ call.outcome.status_code = 200
               /\ call.outcome.body.json /\ call.outcome.body.dict
               /\ \A i \in 1..Len(call.outcome.body.fields) :
                     call.outcome.body.fields[i][1] # "resultado") =>
              result.value.value = NothingFound

\* the request timed out and the client returned the error as text
C23_Witness ==
    /\ ClientReturned
    /\ ~UrlMissing
    /\ call.outcome.kind = "raises"
    /\ call.outcome.exception = "Timeout"
    /\ ~result.value.raises
    /\ str_in(<<"R","e","a","d"," ","t","i","m","e","d"," ","o","u","t",".">>, result.value.value)

----------------------------------------------------------------------------
(* Concurrent multi-query search (rag/microservice_optimized.py, 279-340;  *)
(* rag/financial_rag_elasticsearch.py, 394-471 is the same code).  While   *)
(* the call runs, result holds its frame: the futures of the variations,   *)
(* and the collecting thread's resultados_combinados and contenidos_vistos.*)
(* call.searches[i] is what search_documents does for variation i: it      *)
(* returns documents (quickly, or after more than the 10 s of the          *)
(* timeout), raises, or never returns.                                     *)

\* generar_variaciones_query gives the query, its enriched form and its keywords
MaxVariaciones == 3

max_workers == 3

\* resultados_combinados[:6]
MaxResultados == 6

Document(page_content, chunk) == [page_content |-> page_content, chunk |-> chunk]

\* hashlib.sha256(page_content.encode('utf-8')).hexdigest()
sha256(page_content) == <<"sha256", page_content>>

\* mutant: every document is appended, seen or not
RECURSIVE dedupe_append_KeepAll(_, _, _)
dedupe_append_KeepAll(docs, resultados_combinados, contenidos_vistos) ==
    IF docs = <<>>
    THEN [resultados_combinados |-> resultados_combinados,
          contenidos_vistos |-> contenidos_vistos]
    ELSE dedupe_append_KeepAll(Tail(docs), Append(resultados_combinados, Head(docs)),
                               contenidos_vistos \cup {sha256(Head(docs).page_content)})

\* lines 325-333: the documents of one future, added unless their content was seen
RECURSIVE dedupe_append(_, _, _)
dedupe_append(docs, resultados_combinados, contenidos_vistos) ==
    IF docs = <<>>
    THEN [resultados_combinados |-> resultados_combinados,
          contenidos_vistos |-> contenidos_vistos]
    ELSE LET content_hash == sha256(Head(docs).page_content)
         IN  IF content_hash \notin contenidos_vistos
             THEN dedupe_append(Tail(docs), Append(resultados_combinados, Head(docs)),
                                contenidos_vistos \cup {content_hash})
             ELSE dedupe_append(Tail(docs), resultados_combinados, contenidos_vistos)

\* lines 301-307: buscar_variacion returns the documents, [] when the search raises
buscar_variacion(search) == IF search.kind = "returns" THEN search.docs ELSE <<>>

SearchRunning ==
    /\ call.op = "buscar_multi_query_paralelo"
    /\ ~result.done
    /\ "futures" \in DOMAIN result

\* lines 311-315: one future per variation is submitted to the pool
submit ==
    /\ call.op = "buscar_multi_query_paralelo"
    /\ ~result.done
    /\ "futures" \notin DOMAIN result
    /\ result' = [done |-> FALSE,
                  futures |-> [i \in 1..Len(call.searches) |->
                                  [state |-> "pending", value |-> <<>>, yielded |-> FALSE]],
                  resultados_combinados |-> <<>>,
                  contenidos_vistos |-> {}]
    /\ UNCHANGED <<state_vars, graph_vars, call>>

\* a free worker of the pool takes the oldest pending future
worker_start(i) ==
    /\ SearchRunning
    /\ result.futures[i].state = "pending"
    /\ \A j \in 1..(i - 1) : result.futures[j].state # "pending"
    /\ Cardinality({j \in 1..Len(result.futures) : result.futures[j].state = "running"})
          < max_workers
    /\ result' = [result EXCEPT !.futures[i].state = "running"]
    /\ UNCHANGED <<state_vars, graph_vars, call>>

\* buscar_variacion returns in its worker, unless the search never returns
worker_finish(i) ==
    /\ SearchRunning
    /\ result.futures[i].state = "running"
    /\ call.searches[i].kind # "hangs"
    /\ result' = [result EXCEPT !.futures[i].state = "finished",
                                !.futures[i].value = buscar_variacion(call.searches[i])]
    /\ UNCHANGED <<state_vars, graph_vars, call>>

\* lines 318-333: as_completed yields a finished future; future.result(timeout=10)
\* of a finished future returns at once, and its documents are merged
collect(i) ==
    /\ SearchRunning
    /\ result.futures[i].state = "finished"
    /\ ~result.futures[i].yielded
    /\ LET merged == dedupe_append(result.futures[i].value, result.resultados_combinados,
                                   result.contenidos_vistos)
       IN  result' = [result EXCEPT !.futures[i].yielded = TRUE,
                                    !.resultados_combinados = merged.resultados_combinados,
                                    !.contenidos_vistos = merged.contenidos_vistos]
    /\ UNCHANGED <<state_vars, graph_vars, call>>

\* lines 318, 339-340: as_completed ends when every future was yielded, the pool
\* is shut down and the first documents are returned
return_resultados ==
    /\ SearchRunning
    /\ \A i \in 1..Len(result.futures) : result.futures[i].yielded
    /\ result' = Returned(slice(result.resultados_combinados, 0, MaxResultados))
    /\ UNCHANGED <<state_vars, graph_vars, call>>

----------------------------------------------------------------------------
(* Specification SpecSearch: one call of the multi-query search, for every *)
(* outcome of its searches and every order in which they finish.           *)

KPerQuery == {2, 3}

\* what a search may return: chunks A1 and A2 hold the same text
ResultLists ==
    { <<>>,
      <<Document("A", 1), Document("B", 1)>>,
      <<Document("B", 2), Document("C", 1)>>,
      <<Document("A", 1), Document("A", 2)>>,
      <<Document("C", 1), Document("D", 1), Document("E", 1)>>,
      <<Document("F", 1), Document("G", 1), Document("H", 1)>> }

SearchOutcomes(k_per_query) ==
    { [kind |-> "raises"], [kind |-> "hangs"],
      [kind |-> "returns", slow |-> TRUE, docs |-> <<Document("B", 1), Document("I", 1)>>] }
    \cup { [kind |-> "returns", slow |-> FALSE, docs |-> l] :
             l \in {r \in ResultLists : Len(r) <= k_per_query} }

InitSearch ==
    /\ FreshState
    /\ GraphIdle
    /\ \E k_per_query \in KPerQuery : \E n \in 1..MaxVariaciones :
       \E searches \in [1..n -> SearchOutcomes(k_per_query)] :
         call = [op |-> "buscar_multi_query_paralelo", k_per_query |-> k_per_query,
                 searches |-> searches]
    /\ result = Pending

NextSearch ==
    \/ submit
    \/ \E i \in 1..MaxVariaciones : i <= Len(call.searches) /\ worker_start(i)
    \/ \E i \in 1..MaxVariaciones : i <= Len(call.searches) /\ worker_finish(i)
    \/ \E i \in 1..MaxVariaciones : i <= Len(call.searches) /\ collect(i)
    \/ return_resultados

SpecSearch == InitSearch /\ [][NextSearch]_vars

----------------------------------------------------------------------------
(* Claims about the multi-query search, checked under SpecSearch.          *)

SearchCall == call.op = "buscar_multi_query_paralelo"

SearchReturned == SearchCall /\ result.done

\* variation i completed within the timeout
CompletedInTime(i) == call.searches[i].kind = "returns" /\ ~call.searches[i].slow

InDocs(doc, docs) == \E j \in 1..Len(docs) : docs[j] = doc

\* C24: a variation that fails or does not complete within its timeout is
\* dropped and does not keep the search from completing: the search comes to
\* return, and what it returns are documents of the variations that completed
\* in time.
C24_LateVariantIsDropped ==
    SearchCall =>
        /\ ~(ENABLED NextSearch) => result.done
        /\ result.done =>
              \A j \in 1..Len(result.value) :
                  \E i \in 1..Len(call.searches) :
                      CompletedInTime(i) /\ InDocs(result.value[j], call.searches[i].docs)

\* C25: for every order in which the variations complete, the merged result
\* holds no two documents with the same content, at most 6 documents, and only
\* documents some variation returned.
C25_MergedResult ==
    SearchReturned =>
        /\ \A i, j \in 1..Len(result.value) :
              i # j => result.value[i].page_content # result.value[j].page_content
        /\ Len(result.value) <= 6
        /\ \A j \in 1..Len(result.value) :
              \E i \in 1..Len(call.searches) :
                  /\ call.searches[i].kind = "returns"
                  /\ InDocs(result.value[j], call.searches[i].docs)

\* three variations returned eight different texts, two of them twice, and the
\* last one to return was collected first
C25_Witness ==
    /\ SearchReturned
    /\ Len(call.searches) = 3
    /\ call.searches[1].kind = "returns"
    /\ call.searches[1].docs = <<Document("A", 1), Document("A", 2)>>
    /\ call.searches[2].kind = "returns"
    /\ call.searches[2].docs = <<Document("C", 1), Document("D", 1), Document("E", 1)>>
    /\ call.searches[3].kind = "returns"
    /\ call.searches[3].docs = <<Document("F", 1), Document("G", 1), Document("H", 1)>>
    /\ Len(result.value) = 6
    /\ result.value[1] = Document("F", 1)

----------------------------------------------------------------------------
(* Termination of an invocation, checked under Spec.                       *)

\* the nodes whose execution the graph specification describes
RunnableNodes == {Supervisor} \cup Specialists \cup {Agente_Ayuda, Agente_RAG}

InvocationRunning == pc \notin {Idle, END}

\* C26: every turn terminates: no invocation executes Supervisor more than
\* twice or a handler more than once, whatever the classification and the
\* handler's reply, and an invocation that has not reached END stands at a
\* node that runs and has executed fewer than three nodes, so that it reaches
\* END within three node executions when the model calls and the handler calls
\* return.
C26_TurnTerminates ==
    /\ sup_runs <= 2
    /\ handler_runs <= 1
    /\ InvocationRunning =>
          /\ sup_runs + handler_runs < 3
          /\ pc \in RunnableNodes

\* the second invocation of a thread ended with an open circuit, after two
\* Supervisor executions and one handler execution
C26_Witness ==
    /\ pc = END
    /\ turns = 2
    /\ sup_runs = 2
    /\ handler_runs = 1
    /\ circuit_open

----------------------------------------------------------------------------
(* The order of detect_error_type's tests, checked under SpecDetect.       *)

OutcomeKinds == {"success", "validation", "tool_failure", "capability", "unknown"}

\* C27: detect_error_type returns one kind of success, validation,
\* tool_failure, capability and unknown for every message: the first that
\* applies of success for the success token, tool_failure for the
\* blocking-error token, validation for the missing-data token, tool_failure
\* for a legacy error phrase, and unknown otherwise, the tokens being matched
\* in any letter case.
C27_FirstMatchInFixedOrder ==
    DetectReturned =>
        LET text == AssistantText(call.message)
        IN  /\ result.value \in OutcomeKinds
            /\ result.value =
                  (IF HasToken(text, TAREA_COMPLETADA) THEN "success"
                   ELSE IF HasToken(text, ERROR_BLOQUEANTE) THEN "tool_failure"
                   ELSE IF HasToken(text, FALTAN_DATOS) THEN "validation"
                   ELSE IF HasLegacyPhrase(text) THEN "tool_failure"
                   ELSE "unknown")

\* a list content whose parts hold the missing-data token in mixed case and
\* then the blocking-error token
C27_Witness ==
    /\ DetectReturned
    /\ call.message.content.type = "list"
    /\ HasToken(AssistantText(call.message), FALTAN_DATOS)
    /\ ~str_in(FALTAN_DATOS, AssistantText(call.message))
    /\ HasToken(AssistantText(call.message), ERROR_BLOQUEANTE)
    /\ result.value = "tool_failure"

----------------------------------------------------------------------------
(* Specification SpecContext: extraer_query_con_contexto applied to a      *)
(* refinement, the latest user turn of a bounded earlier history.          *)

\* messages before the latest user turn
MaxContext == 4

\* two computational user turns, a theoretical one, and two assistant replies,
\* one of them longer than 200 characters
ContextMessages ==
    { HumanMessage(<<"C","a","l","c","u","l","a"," ","e","l"," ","V","A","N">>),
      HumanMessage(<<"V","a","l","o","r","a"," ","l","a"," ","c","a","l","l">>),
      HumanMessage(<<"E","x","p","l","i","c","a"," ","q","u","é"," ","e","s"," ","l","a"," ","b","e","t","a">>),
      AIMessage(<<"E","l"," ","p","r","e","c","i","o"," ","e","s"," ","9","5","0","."," ","T","A","R","E","A","_","C","O","M","P","L","E","T","A","D","A">>),
      AIMessage(<<"E","l"," ","V","A","N"," ","d","e","l"," ","p","r","o","y","e","c","t","o"," ","e","s"," ","2","8","9","2",".","4","1"," ","c","o","n"," ","u","n","a"," ","t","a","s","a"," ","d","e"," ","d","e","s","c","u","e","n","t","o"," ","d","e","l"," ","1","0","%"," ","y"," ","f","l","u","j","o","s"," ","d","e"," ","5","0","0"," ","d","u","r","a","n","t","e"," ","c","i","n","c","o"," ","p","e","r","i","o","d","o","s","."," ","I","n","t","e","r","p","r","e","t","a","c","i","ó","n",":"," ","e","l"," ","p","r","o","y","e","c","t","o"," ","c","r","e","a"," ","v","a","l","o","r"," ","p","o","r","q","u","e"," ","e","l"," ","V","A","N"," ","e","s"," ","p","o","s","i","t","i","v","o",";"," ","l","a"," ","T","I","R"," ","s","u","p","e","r","a"," ","e","l"," ","c","o","s","t","o"," ","d","e"," ","c","a","p","i","t","a","l"," ","y"," ","l","a"," ","i","n","v","e","r","s","i","ó","n"," ","s","e"," ","r","e","c","u","p","e","r","a"," ","e","n"," ","e","l"," ","c","u","a","r","t","o"," ","p","e","r","i","o","d","o","."," ","T","A","R","E","A","_","C","O","M","P","L","E","T","A","D","A">>) }

InitContext ==
    /\ FreshState
    /\ GraphIdle
    /\ \E n \in 0..MaxContext : \E earlier \in [1..n -> ContextMessages] :
       \E window_size \in WindowSizes : \E categoria_actual \in Categorias :
         call = [op |-> "extraer_query_con_contexto",
                 messages |-> earlier \o <<HumanMessage(<<"a","h","o","r","a"," ","c","o","n"," ","u","n"," ","b","o","n","o">>)>>,
                 window_size |-> window_size, categoria_actual |-> categoria_actual]
    /\ result = Pending

SpecContext == InitContext /\ [][NextExtract]_vars

----------------------------------------------------------------------------
(* Claims about the prior-context block, checked under SpecContext.  The   *)
(* block is read from the returned string, line by line.                   *)

RefinementReturned ==
    ExtractReturned /\ HasUserTurn /\ HasRefinementMarker(LatestUserText)

\* the messages before the latest user turn
EarlierHistory ==
    LET i == CHOOSE i \in 1..Len(call.messages) :
                /\ call.messages[i].type = "human"
                /\ \A j \in (i + 1)..Len(call.messages) : call.messages[j].type # "human"
    IN  SubSeq(call.messages, 1, i - 1)

RECURSIVE SplitLines(_)
SplitLines(s) ==
    IF \E i \in 1..Len(s) : s[i] = "\n"
    THEN LET i == CHOOSE i \in 1..Len(s) :
                     s[i] = "\n" /\ \A j \in 1..(i - 1) : s[j] # "\n"
         IN  <<SubSeq(s, 1, i - 1)>> \o SplitLines(SubSeq(s, i + 1, Len(s)))
    ELSE <<s>>

Indent == <<" "," "," "," "," "," "," "," ">>

OutputLines == SplitLines(result.value)

HasContextBlock == startswith(result.value, <<"C","O","N","T","E","X","T","O"," ","P","R","E","V","I","O",":">> \o <<"\n">>)

\* the lines between the two labels, the first without its indentation
ContextBlock ==
    LET lines == OutputLines
    IN  IF HasContextBlock /\ Len(lines) >= 5
        THEN <<SubSeq(lines[2], Len(Indent) + 1, Len(lines[2]))>>
             \o SubSeq(lines, 3, Len(lines) - 3)
        ELSE <<>>

UserLine(text) == <<"U","s","u","a","r","i","o",":"," ">> \o text

ReplyLine(text) ==
    <<"A","s","i","s","t","e","n","t","e",":"," ">> \o (IF Len(text) > 200 THEN SubSeq(text, 1, 200) \o <<".",".",".">> ELSE text)

Rendered(m) ==
    IF m.type = "human" THEN UserLine(m.content.val) ELSE ReplyLine(m.content.val)

IsUserLine(line) == startswith(line, <<"U","s","u","a","r","i","o",":"," ">>)

IsReplyLine(line) == startswith(line, <<"A","s","i","s","t","e","n","t","e",":"," ">>)

\* the lines are renderings of some of the messages, in the messages' order
RECURSIVE InHistoryOrder(_, _)
InHistoryOrder(lines, msgs) ==
    \/ lines = <<>>
    \/ /\ msgs # <<>>
       /\ IF Head(lines) = Rendered(Head(msgs))
          THEN InHistoryOrder(Tail(lines), Tail(msgs))
          ELSE InHistoryOrder(lines, Tail(msgs))

UserLines == SelectSeq(ContextBlock, IsUserLine)

\* C28: for a latest user turn with a refinement marker, the output is either
\* that turn's text alone or the labelled block: the label, the collected
\* lines, an empty line, the second label and the new query; the block holds
\* at most window_size user turns, its lines are earlier messages in their
\* order, oldest first, and an assistant reply longer than 200 characters is
\* cut to its first 200 characters and "...".
C28_BlockIsBoundedOrderedTruncated ==
    RefinementReturned =>
        LET lines == OutputLines
            n == Len(lines)
            block == ContextBlock
        IN  /\ IF block = <<>>
               THEN result.value = LatestUserText
               ELSE /\ lines[1] = <<"C","O","N","T","E","X","T","O"," ","P","R","E","V","I","O",":">>
                    /\ startswith(lines[2], Indent)
                    /\ lines[n - 2] = <<>>
                    /\ lines[n - 1] = Indent \o <<"N","U","E","V","A"," ","C","O","N","S","U","L","T","A",":">>
                    /\ lines[n] = Indent \o LatestUserText
            /\ Len(SelectSeq(block, IsUserLine)) <= call.window_size
            /\ InHistoryOrder(block, EarlierHistory)
            /\ \A k \in 1..Len(block) :
                  /\ IsUserLine(block[k]) \/ IsReplyLine(block[k])
                  /\ IsReplyLine(block[k]) =>
                        Len(block[k]) <= Len(<<"A","s","i","s","t","e","n","t","e",":"," ">>) + 200 + 3

\* three earlier user turns and a window of two: the block holds the last two
\* and, between them, a reply cut to 200 characters and "..."
C28_Witness ==
    /\ RefinementReturned
    /\ call.window_size = 2
    /\ Len(SelectSeq(EarlierHistory, LAMBDA m : m.type = "human")) = 3
    /\ Len(ContextBlock) = 3
    /\ IsUserLine(ContextBlock[1])
    /\ IsReplyLine(ContextBlock[2])
    /\ Len(ContextBlock[2]) = Len(<<"A","s","i","s","t","e","n","t","e",":"," ">>) + 203
    /\ IsUserLine(ContextBlock[3])
    /\ ContextBlock[1] # ContextBlock[3]

\* the message after earlier message i is an assistant reply
HasPairedReply(msgs, i) ==
    i < Len(msgs) /\ msgs[i + 1].type = "ai"

\* C29: every assistant reply of the block follows the user turn it answers,
\* and every user turn of the block that was answered is followed by its
\* reply.
C29_RepliesArePaired ==
    RefinementReturned =>
      LET block == ContextBlock
          earlier == EarlierHistory
      IN
        \A k \in 1..Len(block) :
            /\ IsReplyLine(block[k]) =>
                  /\ k > 1
                  /\ \E i \in 1..Len(earlier) :
                        /\ earlier[i].type = "human"
                        /\ Rendered(earlier[i]) = block[k - 1]
                        /\ HasPairedReply(earlier, i)
                        /\ Rendered(earlier[i + 1]) = block[k]
            /\ ( /\ IsUserLine(block[k])
                 /\ \A i \in 1..Len(earlier) :
                       (/\ earlier[i].type = "human"
                        /\ Rendered(earlier[i]) = block[k]) => HasPairedReply(earlier, i) )
               => /\ k < Len(block)
                  /\ \E i \in 1..Len(earlier) :
                        /\ earlier[i].type = "human"
                        /\ Rendered(earlier[i]) = block[k]
                        /\ HasPairedReply(earlier, i)
                        /\ Rendered(earlier[i + 1]) = block[k + 1]

IsTheoretical(text) ==
    \E i \in 1..Len(teoricas_keywords) : str_in(teoricas_keywords[i], lower(text))

\* the earlier user turns the category lets through
Passes(m) ==
    /\ m.type = "human"
    /\ call.categoria_actual = PRACTICA => ~IsTheoretical(m.content.val)

LastN(s, n) == IF Len(s) <= n THEN s ELSE SubSeq(s, Len(s) - n + 1, Len(s))

RenderedAll(msgs) == [i \in 1..Len(msgs) |-> Rendered(msgs[i])]

\* C30: the user turns of the block are the last window_size earlier user
\* turns that pass the category: with PRACTICA the turns matching the
\* theoretical keywords do not pass and do not count towards the window,
\* with any other category, None included, every user turn passes.
C30_TheoreticalTurnsSkipped ==
    RefinementReturned =>
        LET block == ContextBlock
        IN  /\ SelectSeq(block, IsUserLine)
                  = RenderedAll(LastN(SelectSeq(EarlierHistory, Passes), call.window_size))
            /\ call.categoria_actual = PRACTICA =>
                  \A k \in 1..Len(block) :
                      IsUserLine(block[k]) =>
                          ~IsTheoretical(SubSeq(block[k], Len(<<"U","s","u","a","r","i","o",":"," ">>) + 1, Len(block[k])))

\* with PRACTICA and a window of two, a theoretical turn between two
\* computational ones was skipped and both of them were collected
C30_Witness ==
    /\ RefinementReturned
    /\ call.categoria_actual = PRACTICA
    /\ call.window_size = 2
    /\ Len(EarlierHistory) = 3
    /\ \A i \in 1..3 : EarlierHistory[i].type = "human"
    /\ ~IsTheoretical(EarlierHistory[1].content.val)
    /\ IsTheoretical(EarlierHistory[2].content.val)
    /\ ~IsTheoretical(EarlierHistory[3].content.val)
    /\ EarlierHistory[1] # EarlierHistory[3]
    /\ UserLines = <<Rendered(EarlierHistory[1]), Rendered(EarlierHistory[3])>>

----------------------------------------------------------------------------
(* Specification SpecActivation: _handle_circuit_breaker_activation        *)
(* applied to bounded counters.                                            *)

InitActivation ==
    /\ FreshState
    /\ GraphIdle
    /\ \E d \in BreakerDicts : \E n \in 0..(MaxErrors + 1) :
         call = [op |-> "_handle_circuit_breaker_activation",
                 error_types |-> d, error_count |-> n]
    /\ result = Pending

CallActivation ==
    /\ call.op = "_handle_circuit_breaker_activation"
    /\ ~result.done
    /\ result' = Returned(_handle_circuit_breaker_activation(call.error_types,
                                                              call.error_count))
    /\ UNCHANGED <<state_vars, graph_vars, call>>

NextActivation == CallActivation

SpecActivation == InitActivation /\ [][NextActivation]_vars

----------------------------------------------------------------------------
(* Claims about the termination message, checked under SpecActivation.     *)

ActivationReturned == call.op = "_handle_circuit_breaker_activation" /\ result.done

\* the kinds of the dict whose count no other kind exceeds
DominantKinds(d) ==
    { d[i][1] : i \in { i \in 1..Len(d) : \A j \in 1..Len(d) : d[j][2] <= d[i][2] } }

MissingParametersMessage ==
    <<"U+26A0","U+FE0F"," ","*","*","F","a","l","t","a","n"," ","D","a","t","o","s","*","*",":"," ","P","o","r"," ","f","a","v","o","r"," ","p","r","o","p","o","r","c","i","o","n","a"," ","t","o","d","o","s"," ","l","o","s"," ","p","a","r","á","m","e","t","r","o","s"," ","r","e","q","u","e","r","i","d","o","s",".">>

TechnicalMalfunctionMessage ==
    <<"U+1F527"," ","*","*","E","r","r","o","r"," ","T","é","c","n","i","c","o","*","*",":"," ","L","a","s"," ","h","e","r","r","a","m","i","e","n","t","a","s"," ","n","o"," ","e","s","t","á","n"," ","r","e","s","p","o","n","d","i","e","n","d","o"," ","c","o","r","r","e","c","t","a","m","e","n","t","e",".">>

RetryLimitMessage(n) ==
    <<"U+274C"," ","*","*","P","r","o","c","e","s","a","m","i","e","n","t","o"," ","D","e","t","e","n","i","d","o","*","*",":"," ","D","e","m","a","s","i","a","d","o","s"," ","r","e","i","n","t","e","n","t","o","s"," ","(">> \o int_str(n) \o <<")",".">>

MessageOfKind(kind, n) ==
    IF kind = "validation" THEN MissingParametersMessage
    ELSE IF kind = "tool_failure" THEN TechnicalMalfunctionMessage
    ELSE RetryLimitMessage(n)

\* C31: the activation carries next_node = FINISH, circuit_open = true and one
\* assistant message, worded by a kind of error_types with the highest count:
\* the missing-parameters message for validation, the technical-malfunction
\* message for tool_failure, the retry-limit message for any other kind and
\* for an empty error_types.
C31_MessageByDominantKind ==
    ActivationReturned =>
        /\ result.value.next_node = FINISH
        /\ result.value.circuit_open = TRUE
        /\ Len(result.value.messages) = 1
        /\ result.value.messages[1].type = "ai"
        /\ LET text == result.value.messages[1].content.val
               top  == DominantKinds(call.error_types)
           IN  IF top = {}
               THEN text = RetryLimitMessage(call.error_count)
               ELSE \E kind \in top : text = MessageOfKind(kind, call.error_count)

\* tool_failure was counted before validation and validation has the higher
\* count: the message asks for the missing parameters
C31_Witness ==
    /\ ActivationReturned
    /\ Len(call.error_types) = 2
    /\ call.error_types[1][1] = "tool_failure"
    /\ call.error_types[2][1] = "validation"
    /\ call.error_types[1][2] < call.error_types[2][2]
    /\ result.value.messages[1].content.val = MissingParametersMessage

----------------------------------------------------------------------------
(* The counters of a thread, checked under Spec.                           *)

RECURSIVE SumOfCounts(_)
SumOfCounts(d) == IF d = <<>> THEN 0 ELSE d[1][2] + SumOfCounts(Tail(d))

\* C32: from a fresh session, in every reachable state error_count is the sum
\* of the counts of error_types.
C32_CountIsSumOfKinds == error_count = SumOfCounts(error_types)

\* a validation error and a tool failure were counted on the thread
C32_Witness ==
    /\ error_count = 2
    /\ Len(error_types) = 2
    /\ dict_get(error_types, "validation", 0) = 1
    /\ dict_get(error_types, "tool_failure", 0) = 1

\* C34: from a fresh session, in every reachable state error_count is at most
\* 2 and so is every count of error_types: the circuit opens at the second
\* counted error at the latest and nothing is counted once it is open, so the
\* validation count never reaches the 3 of should_open_circuit's second rule.
C34_CountersAtMostTwo ==
    /\ error_count <= 2
    /\ \A i \in 1..Len(error_types) : error_types[i][2] <= 2
    /\ dict_get(error_types, "validation", 0) < 3
    /\ error_count = 2 => circuit_open

\* two validation errors opened the circuit, and a later turn left the
\* counters as they were
C34_Witness ==
    /\ circuit_open
    /\ error_count = 2
    /\ dict_get(error_types, "validation", 0) = 2
    /\ turns = 3
    /\ pc = END

----------------------------------------------------------------------------
(* Specification SpecReturning: the graph of Spec on the runs in which the *)
(* second-level call, whenever it is made, returns an answer.              *)

ReturningOutcomes ==
    IF ~circuit_open /\ messages # <<>> /\ Last(messages).type = "human"
    THEN Decisions \X {e \in EspecialistaMsgs : ~e.raises}
    ELSE ModelOutcomes

NextReturning ==
    \/ \E message \in UserMessages : chat_endpoint(message)
    \/ SupervisorStepWith(ReturningOutcomes)
    \/ specialist_node
    \/ nodo_ayuda_directo
    \/ nodo_rag

SpecReturning == Init /\ [][NextReturning]_vars

\* the replies of the thread that carry an error token
ErrorReplies ==
    { i \in 1..Len(messages) :
        /\ messages[i].type = "ai"
        /\ detect_error_type(messages[i]) \in {"tool_failure", "validation"} }

\* C33: when the second-level call never raises, the counters are 0 and empty
\* at every dispatch of a fresh user turn, error_count never exceeds 1 and
\* circuit_open never becomes true, however many turns in a row end in a
\* specialist's error.
C33_BreakerNeverOpens ==
    /\ pc \in agent_nodes => (error_count = 0 /\ error_types = EmptyDict)
    /\ error_count <= 1
    /\ ~circuit_open

\* three turns in a row ended in a specialist's error and only the last is
\* counted
C33_Witness ==
    /\ pc = END
    /\ turns = 3
    /\ sup_runs = 2
    /\ Cardinality(ErrorReplies) = 3
    /\ error_count = 1
    /\ ~circuit_open

----------------------------------------------------------------------------
(* The counters at a dispatch, checked under SpecRoute.                    *)

\* the second-level call is made and raises
SelectionRaises == Computational /\ call.especialista_msg.raises

\* C35: when the second-level call raises, the turn goes to
\* Agente_Finanzas_Corp with error_count and error_types as they were before
\* the turn; every other dispatch of a fresh user turn sets them to 0 and
\* empty.
C35_RaisedSelectionKeepsCounters ==
    FreshTurn =>
        IF SelectionRaises
        THEN /\ RouteUpdate.next_node = Agente_Finanzas_Corp
             /\ RouteUpdate.error_count = call.state.error_count
             /\ RouteUpdate.error_types = call.state.error_types
        ELSE /\ RouteUpdate.error_count = 0
             /\ RouteUpdate.error_types = EmptyDict

\* a validation error counted on an earlier turn is still there after the
\* dispatch
C35_Witness ==
    /\ FreshTurn
    /\ SelectionRaises
    /\ ~call.decision.raises
    /\ call.state.error_count = 1
    /\ RouteUpdate.next_node = Agente_Finanzas_Corp
    /\ RouteUpdate.error_count = 1
    /\ RouteUpdate.error_types = <<<<"validation", 1>>>>

----------------------------------------------------------------------------
(* Specification SpecAnalyse: supervisor_node applied to states whose last *)
(* message is not a user turn: a reply of each kind, a message that still  *)
(* carries tool calls, a tool's result.                                    *)

AnalysedMessages ==
    { AIMessage(<<"E","l"," ","V","A","N"," ","e","s"," ","2","8","9","2","."," ","T","A","R","E","A","_","C","O","M","P","L","E","T","A","D","A">>),
      AIMessage(<<"N","e","c","e","s","i","t","o"," ","l","a"," ","t","a","s","a","."," ","f","a","l","t","a","n","_","d","a","t","o","s">>),
      AIMessage(<<"E","r","r","o","r"," ","t","é","c","n","i","c","o",":"," ","d","i","v","i","s","i","ó","n","."," ","E","R","R","O","R","_","B","L","O","Q","U","E","A","N","T","E">>),
      AIMessage(<<"H","u","b","o"," ","u","n"," ","P","r","o","b","l","e","m","a"," ","T","é","c","n","i","c","o"," ","c","o","n"," ","l","a"," ","h","e","r","r","a","m","i","e","n","t","a",".">>),
      AIMessage(<<"E","s","t","a"," ","e","s"," ","u","n","a"," ","c","o","n","s","u","l","t","a"," ","t","e","ó","r","i","c","a","."," ","T","R","A","N","S","F","E","R","I","R","_","A","_","R","A","G">>),
      AIMessage(<<"N","o"," ","p","u","e","d","o"," ","a","y","u","d","a","r"," ","c","o","n"," ","e","s","o",".">>),
      AIToolCall,
      [type |-> "ai", content |-> StrContent(<<"R","e","i","n","t","e","n","t","o"," ","t","r","a","s"," ","E","R","R","O","R","_","B","L","O","Q","U","E","A","N","T","E">>),
       tool_calls |-> TRUE],
      ToolMessage(<<"2","8","9","2",".","4","1">>) }

\* counters as a thread can hold them
AnalysedCounters ==
    { <<0, EmptyDict>>, <<1, <<<<"validation", 1>>>>>>, <<1, <<<<"tool_failure", 1>>>>>> }

InitAnalyse ==
    /\ FreshState
    /\ GraphIdle
    /\ \E n \in 0..MaxPrior : \E prior \in [1..n -> PriorMessages] :
       \E last \in AnalysedMessages : \E c \in AnalysedCounters :
         call = [op |-> "supervisor_node",
                 state |-> [messages |-> prior \o <<last>>, next_node |-> None,
                            error_count |-> c[1], error_types |-> c[2],
                            circuit_open |-> FALSE],
                 decision |-> [raises |-> TRUE],
                 especialista_msg |-> [raises |-> TRUE]]
    /\ result = Pending

SpecAnalyse == InitAnalyse /\ [][NextRoute]_vars

----------------------------------------------------------------------------
(* Claims about what is counted, checked under SpecAnalyse.                *)

LastOfCall == Last(call.state.messages)

\* the reply holds no control token and no legacy error phrase
HoldsNoToken(m) ==
    LET text == AssistantText(m)
    IN  /\ ~HasToken(text, TAREA_COMPLETADA)
        /\ ~HasToken(text, ERROR_BLOQUEANTE)
        /\ ~HasToken(text, FALTAN_DATOS)
        /\ ~HasLegacyPhrase(text)

CountersUntouched ==
    /\ RouteUpdate.next_node = FINISH
    /\ RouteUpdate.error_count = call.state.error_count
    /\ RouteUpdate.error_types = call.state.error_types
    /\ "circuit_open" \notin DOMAIN RouteUpdate
    /\ "messages" \notin DOMAIN RouteUpdate

\* C36: an assistant reply without control token and legacy error phrase, and
\* an assistant message that still carries tool calls, give FINISH and leave
\* error_count, error_types and circuit_open as they were; whenever a counter
\* changes, the reply is one the detector classifies tool_failure, validation
\* or capability.
C36_UnknownAndToolCallsNotCounted ==
    (RouteReturned /\ LastOfCall.type = "ai") =>
        /\ (LastOfCall.tool_calls \/ HoldsNoToken(LastOfCall)) => CountersUntouched
        /\ ~CountersUntouched =>
              /\ ~LastOfCall.tool_calls
              /\ detect_error_type(LastOfCall) \in {"tool_failure", "validation", "capability"}

\* a message that carries tool calls and the blocking-error token left a
\* counted tool failure as it was
C36_Witness ==
    /\ RouteReturned
    /\ LastOfCall.type = "ai"
    /\ LastOfCall.tool_calls
    /\ HasToken(AssistantText(LastOfCall), ERROR_BLOQUEANTE)
    /\ call.state.error_count = 1
    /\ call.state.error_types = <<<<"tool_failure", 1>>>>
    /\ CountersUntouched

----------------------------------------------------------------------------
(* The replies that are analysed, checked under Spec.                      *)

DirectHandlers == {Agente_RAG, Agente_Ayuda}

\* C37: the execution of Agente_RAG or Agente_Ayuda ends the invocation and
\* leaves error_count, error_types and circuit_open as they were, whatever
\* its reply holds; the message that follows on the thread is a user's, and a
\* Supervisor execution that finds an assistant reply as last message finds
\* the reply of one of the five specialists.
C37_DirectHandlersNeverCounted ==
    [][/\ pc \in DirectHandlers =>
             /\ pc' = END
             /\ error_count' = error_count
             /\ error_types' = error_types
             /\ circuit_open' = circuit_open
       /\ (pc = END /\ next_node \in DirectHandlers) =>
             /\ pc' = Supervisor
             /\ Last(messages').type = "human"
       /\ (pc = Supervisor /\ LastIsReply) => next_node \in Specialists
       /\ (pc = Supervisor /\ error_count' > error_count) =>
             /\ LastIsReply
             /\ next_node \in Specialists]_vars

\* the second turn of a thread ended with Agente_RAG's reply carrying the
\* blocking-error token, and nothing was counted
C37_Witness ==
    /\ turns = 2
    /\ pc = END
    /\ next_node = Agente_RAG
    /\ LastHasToken(ERROR_BLOQUEANTE)
    /\ sup_runs = 1
    /\ handler_runs = 1
    /\ error_count = 0
    /\ error_types = EmptyDict
    /\ ~circuit_open

----------------------------------------------------------------------------
(* Specification SpecPaging: a client reads the history of an unchanged    *)
(* thread page by page: limit L, offsets 0, L, 2L, ... until a page        *)
(* answers hasMore = false.  result holds the pages received so far.       *)

InitPaging ==
    /\ FreshState
    /\ GraphIdle
    /\ \E thread_id \in ThreadIds : \E limit \in 1..MaxLimit :
         \/ call = [op |-> "pages", thread_id |-> thread_id, limit |-> limit,
                    values |-> NoValues]
         \/ \E n \in 1..MaxStoredTurns :
            \E queries \in [1..n -> SupervisorQueries] : \E outputs \in [1..n -> HandlerOutputs] :
              call = [op |-> "pages", thread_id |-> thread_id, limit |-> limit,
                      values |-> [messages |-> stored_turns(1, n, queries, outputs)]]
    /\ result = Pending

PagesReceived == IF "pages" \in DOMAIN result THEN result.pages ELSE <<>>

\* GET /history with the offset after the pages received
FetchPage ==
    /\ call.op = "pages"
    /\ ~result.done
    /\ LET page == get_history(call.thread_id, call.limit,
                               call.limit * Len(PagesReceived), call.values)
       IN  result' = [done |-> ~page.hasMore, pages |-> Append(PagesReceived, page)]
    /\ UNCHANGED <<state_vars, graph_vars, call>>

NextPaging == FetchPage

SpecPaging == InitPaging /\ [][NextPaging]_vars

----------------------------------------------------------------------------
(* Claims about paging, checked under SpecPaging.                          *)

RECURSIVE ItemsOf(_)
ItemsOf(pages) == IF pages = <<>> THEN <<>> ELSE Head(pages).messages \o ItemsOf(Tail(pages))

\* C38: the pages read at offsets 0, L, 2L, ... of an unchanged thread, up to
\* the first that answers hasMore = false, put one after the other are the
\* whole reverse-chronological transcript, no item twice and none left out,
\* and every page before the last holds L items.
C38_PagesCoverTranscript ==
    (call.op = "pages" /\ PagesReceived # <<>>) =>
        LET pages == PagesReceived
            items == ItemsOf(pages)
            whole == Transcript
        IN  /\ Len(items) <= Len(whole)
            /\ items = SubSeq(whole, 1, Len(items))
            /\ \A i, j \in 1..Len(items) : i # j => items[i].id # items[j].id
            /\ \A k \in 1..(Len(pages) - 1) :
                  Len(pages[k].messages) = call.limit /\ pages[k].hasMore
            /\ result.done <=> ~pages[Len(pages)].hasMore
            /\ result.done => items = whole
            /\ ~result.done => Len(items) = call.limit * Len(pages)

\* a transcript of four items read in two full pages
C38_Witness ==
    /\ call.op = "pages"
    /\ result.done
    /\ ~IsGuestThread
    /\ call.limit = 2
    /\ Len(Transcript) = 4
    /\ Len(PagesReceived) = 2
    /\ Len(PagesReceived[2].messages) = 2

====
